---------------------------- MODULE Spec2Model ----------------------------
(***************************************************************************)
(* A model of the zarrita hierarchy / chunk reading code.                  *)
(*                                                                         *)
(* Strings of the program are modelled as sequences of one-character       *)
(* strings, so that slicing, splitting, prefix and suffix tests are        *)
(* computed the way the JavaScript code computes them.                     *)
(***************************************************************************)
EXTENDS Integers, Sequences, FiniteSets, TLC

VARIABLES
    pathIn,     \* the raw path handed to _check_path
    pathOut,    \* what _check_path produced for it (NotCalled before the call)
    store,      \* MemoryStore.map: the entries [key, value] in insertion order
    ret,        \* the last hierarchy operation: [op, path, res]
    arr,        \* the ZarrArray a read is made on
    sel,        \* the selection handed to get
    pc,         \* where the read is: idle, waiting (at queue.onIdle), returned, failed
    tasks,      \* the chunk tasks given to the queue, in the order they were added
    out,        \* out.data: the output buffer of the read
    readRes,    \* what get returned or threw
    LITTLE_ENDIAN_OS,   \* whether the host stores the low byte first
    codec,      \* a chunk buffer on its way through _encode_chunk and _decode_chunk
    storeFault, \* the operations on which the hierarchy's store fails
    fsa         \* a FileSystemAccessStore, the document it listens on and the pickers it awaits

codecVars == <<LITTLE_ENDIAN_OS, codec>>

extVars == <<codecVars, storeFault, fsa>>

vars == <<pathIn, pathOut, store, ret, arr, sel, pc, tasks, out, readRes,
          extVars>>

readVars == <<arr, sel, pc, tasks, out, readRes>>

pathVars == <<pathIn, pathOut>>

hierVars == <<store, ret>>

-----------------------------------------------------------------------------
(* Bounds of the model *)

\* longest raw path string handed to _check_path
MaxPathLen == 4

\* most node metadata documents a hierarchy holds
MaxNodes == 3

-----------------------------------------------------------------------------
(* String helpers: JavaScript's String methods on character sequences *)

RECURSIVE SplitFrom(_, _, _)
\* s.split(c) for a one-character separator c; cur is the segment being read
SplitFrom(s, c, cur) ==
    IF s = <<>> THEN <<cur>>
    ELSE IF Head(s) = c THEN <<cur>> \o SplitFrom(Tail(s), c, <<>>)
    ELSE SplitFrom(Tail(s), c, Append(cur, Head(s)))

SplitChar(s, c) == SplitFrom(s, c, <<>>)

\* s.slice(n): the string from index n (0-based) on
SliceFrom(s, n) == SubSeq(s, n + 1, Len(s))

Range(s) == { s[i] : i \in 1..Len(s) }

StartsWith(s, p) == Len(p) <= Len(s) /\ SubSeq(s, 1, Len(p)) = p

EndsWith(s, p) == Len(p) <= Len(s) /\ SubSeq(s, Len(s) - Len(p) + 1, Len(s)) = p

\* the positions (1-based) at which sub occurs in s
Occurrences(s, sub) ==
    { i \in 1..(Len(s) - Len(sub) + 1) : SubSeq(s, i, i + Len(sub) - 1) = sub }

\* s.includes(sub)
Includes(s, sub) == sub = <<>> \/ Occurrences(s, sub) # {}

Min(S) == CHOOSE x \in S : \A y \in S : x <= y

RECURSIVE SplitStr(_, _)
\* s.split(sep) for a non-empty separator string
SplitStr(s, sep) ==
    IF Occurrences(s, sep) = {} THEN <<s>>
    ELSE LET i == Min(Occurrences(s, sep))
         IN  <<SubSeq(s, 1, i - 1)>> \o SplitStr(SliceFrom(s, i - 1 + Len(sep)), sep)

\* s.slice(0, -n)
DropLast(s, n) == SubSeq(s, 1, Len(s) - n)

RECURSIVE JoinWith(_, _)
\* segments.join(c)
JoinWith(segs, c) ==
    IF segs = <<>> THEN <<>>
    ELSE IF Len(segs) = 1 THEN segs[1]
    ELSE segs[1] \o <<c>> \o JoinWith(Tail(segs), c)

RECURSIVE Dedup(_, _)
\* [...new Set(items)]: the distinct items in order of first appearance
Dedup(items, seen) ==
    IF items = <<>> THEN <<>>
    ELSE IF Head(items) \in seen THEN Dedup(Tail(items), seen)
    ELSE <<Head(items)>> \o Dedup(Tail(items), seen \cup {Head(items)})

-----------------------------------------------------------------------------
(* Errors and results *)

NotCalled == [err |-> "NotCalled", value |-> <<>>]

Ok(v) == [err |-> "none", value |-> v]

Throw(e) == [err |-> e, value |-> <<>>]

\* a hierarchy operation that returned a node: its kind and path
NodeOk(kind, path) == [err |-> "none", kind |-> kind, path |-> path]

\* a hierarchy operation that returned a plain value (true / false / done)
ValueOk(v) == [err |-> "none", kind |-> v, path |-> <<>>]

\* a hierarchy operation that threw e
Fail(e) == [err |-> e, kind |-> "none", path |-> <<>>]

NoCall == [op |-> "none", path |-> <<>>, res |-> Fail("NotCalled")]

\* no array is being read
ReadIdle ==
    /\ arr = [path |-> <<>>]
    /\ sel = <<>>
    /\ pc = "idle"
    /\ tasks = <<>>
    /\ out = <<>>
    /\ readRes = NotCalled

\* no chunk buffer is being encoded
CodecIdle ==
    /\ LITTLE_ENDIAN_OS = TRUE
    /\ codec = [step |-> "idle"]

\* a store that fails on no operation (a MemoryStore)
NoFault == [keys |-> {}, list_dir |-> FALSE]

\* nothing but the hierarchy, the path check or the read is in use
\* no FileSystemAccessStore has been constructed
FsIdle == fsa = [step |-> "idle"]

ExtIdle == CodecIdle /\ storeFault = NoFault /\ FsIdle

-----------------------------------------------------------------------------
(* Path normalisation *)

LowerCase ==
    {"a","b","c","d","e","f","g","h","i","j","k","l","m",
     "n","o","p","q","r","s","t","u","v","w","x","y","z"}

UpperCase ==
    {"A","B","C","D","E","F","G","H","I","J","K","L","M",
     "N","O","P","Q","R","S","T","U","V","W","X","Y","Z"}

Digits == {"0","1","2","3","4","5","6","7","8","9"}

ALLOWED_NODE_NAME_CHARS == LowerCase \cup UpperCase \cup {".", "_", "-"}

\* the checks _check_path runs on one segment of the path
SegmentInvalid(segment) ==
    \/ Len(segment) = 0
    \/ \E i \in 1..Len(segment) : segment[i] \notin ALLOWED_NODE_NAME_CHARS
    \/ \A i \in 1..Len(segment) : segment[i] = "."

_check_path(path) ==
    IF Len(path) = 0 THEN Throw("ValueError")
    ELSE LET p == IF path[1] # "/" THEN <<"/">> \o path ELSE path
         IN  IF Len(p) > 1
                /\ \E k \in 1..Len(SplitChar(SliceFrom(p, 1), "/")) :
                       SegmentInvalid(SplitChar(SliceFrom(p, 1), "/")[k])
             THEN Throw("ValueError")
             ELSE Ok(p)

-----------------------------------------------------------------------------
(* Specification SpecPath: _check_path applied to every short raw path *)

PathAlphabet == {"/", "a", "Z", "7", ".", "-", "!"}

RawPathInputs ==
    UNION { [1..n -> PathAlphabet] : n \in 0..MaxPathLen }

InitPath ==
    /\ pathIn \in RawPathInputs
    /\ pathOut = NotCalled
    /\ store = <<>>
    /\ ret = NoCall
    /\ ReadIdle
    /\ ExtIdle

CheckPath ==
    /\ pathOut = NotCalled
    /\ pathOut' = _check_path(pathIn)
    /\ UNCHANGED <<pathIn, hierVars, readVars, extVars>>

NextPath == CheckPath

SpecPath == InitPath /\ [][NextPath]_vars

-----------------------------------------------------------------------------
(* C1 *)

\* the characters a path segment may hold according to the path contract
ContractSegmentChars == LowerCase \cup UpperCase \cup Digits \cup {".", "_", "-"}

\* raw with the implied leading '/'
Rooted(raw) == IF raw # <<>> /\ raw[1] = "/" THEN raw ELSE <<"/">> \o raw

\* the cases in which the path contract demands a ValueError
ContractRejects(raw) ==
    \/ raw = <<>>
    \/ /\ Len(Rooted(raw)) > 1
       /\ \E k \in 1..Len(SplitChar(SliceFrom(Rooted(raw), 1), "/")) :
            LET seg == SplitChar(SliceFrom(Rooted(raw), 1), "/")[k]
            IN  \/ seg = <<>>
                \/ \E i \in 1..Len(seg) : seg[i] \notin ContractSegmentChars
                \/ \A i \in 1..Len(seg) : seg[i] = "."

\* C1: _check_path fails with ValueError exactly when the raw path is empty,
\* or a segment is empty, holds a character outside [A-Za-z0-9._-], or is
\* made of '.' only; every other path (digits included) is returned rooted.
C1_PathContract ==
    pathOut # NotCalled =>
        IF ContractRejects(pathIn)
        THEN pathOut = Throw("ValueError")
        ELSE pathOut = Ok(Rooted(pathIn))

-----------------------------------------------------------------------------
(* Key layout and the in-memory store *)

S_meta_root == <<"m","e","t","a","/","r","o","o","t">>

S_array == <<".","a","r","r","a","y">>

S_group == <<".","g","r","o","u","p">>

S_json == <<".","j","s","o","n">>

S_zarr_json == <<"z","a","r","r",".","j","s","o","n">>

_array_meta_key(path, suffix) ==
    IF path = <<"/">> THEN S_meta_root \o S_array \o suffix
    ELSE S_meta_root \o path \o S_array \o suffix

_group_meta_key(path, suffix) ==
    IF path = <<"/">> THEN S_meta_root \o S_group \o suffix
    ELSE S_meta_root \o path \o S_group \o suffix

\* this.map.keys(): the keys in insertion order
MapKeys(map) == [i \in 1..Len(map) |-> map[i].key]

MapHas(map, key) == \E i \in 1..Len(map) : map[i].key = key

\* the value stored under a key that is present
MapValue(map, key) == map[CHOOSE i \in 1..Len(map) : map[i].key = key].value

MemoryStore_get(map, key) ==
    IF MapHas(map, key) THEN Ok(MapValue(map, key)) ELSE Throw("KeyError")

\* Map.set: a new key is appended, a present key keeps its place
MemoryStore_set(map, key, value) ==
    IF MapHas(map, key)
    THEN [i \in 1..Len(map) |->
            IF map[i].key = key THEN [key |-> key, value |-> value] ELSE map[i]]
    ELSE Append(map, [key |-> key, value |-> value])

RECURSIVE ListDirScan(_, _)
\* the loop of list_dir over the keys: the sequence of [file, item] found
ListDirScan(keys, prefix) ==
    IF keys = <<>> THEN <<>>
    ELSE LET path == Head(keys)
             rest == ListDirScan(Tail(keys), prefix)
         IN  IF Includes(path, prefix)
             THEN LET name == IF prefix # <<>> THEN SplitStr(path, prefix)[2] ELSE path
                      segments == SplitChar(name, "/")
                  IN  <<[file |-> Len(segments) = 1, item |-> segments[1]]>> \o rest
             ELSE rest

MemoryStore_list_dir(map, prefix) ==
    LET found == ListDirScan(MapKeys(map), prefix)
        files == SelectSeq(found, LAMBDA f : f.file)
        dirs  == SelectSeq(found, LAMBDA f : ~f.file)
    IN  [contents |-> [i \in 1..Len(files) |-> files[i].item],
         prefixes |-> Dedup([i \in 1..Len(dirs) |-> dirs[i].item], {})]

RECURSIVE ListPrefixScan(_, _)
\* the loop of list_prefix over the keys
ListPrefixScan(keys, prefix) ==
    IF keys = <<>> THEN <<>>
    ELSE LET path == Head(keys)
             rest == ListPrefixScan(Tail(keys), prefix)
         IN  IF StartsWith(path, prefix)
             THEN <<SplitStr(path, prefix)[2]>> \o rest
             ELSE rest

\* MemoryStore.list_prefix: the items, or the Error of a failed assertion
MemoryStore_list_prefix(map, prefix) ==
    IF prefix = <<>> \/ prefix[Len(prefix)] # "/" THEN Throw("Error")
    ELSE Ok(ListPrefixScan(MapKeys(map), prefix))

-----------------------------------------------------------------------------
(* The hierarchy: node creation and path resolution *)

\* the suffix create_hierarchy gives the hierarchy
meta_key_suffix == S_json

DTYPE_STRS ==
    { <<"i","1">>, <<"u","1">>,
      <<"<","i","2">>, <<"<","i","4">>, <<"<","i","8">>,
      <<">","i","2">>, <<">","i","4">>, <<">","i","8">>,
      <<"<","u","2">>, <<"<","u","4">>,
      <<">","u","2">>, <<">","u","4">>,
      <<"<","f","2">>, <<"<","f","4">>, <<"<","f","8">>,
      <<">","f","2">>, <<">","f","4">>, <<">","f","8">> }

\* assert(DTYPE_STRS.has(dtype))
_check_dtype(dtype) == IF dtype \in DTYPE_STRS THEN Ok(dtype) ELSE Throw("Error")

\* assert(chunk_shape.length === shape.length)
_check_chunk_shape(chunk_shape, shape) ==
    IF Len(chunk_shape) = Len(shape) THEN Ok(chunk_shape) ELSE Throw("Error")

\* the array metadata document create_array writes for props
ArrayMeta(props) ==
    [shape |-> props.shape,
     data_type |-> props.dtype,
     chunk_grid |-> [type |-> "regular", separator |-> "/",
                     chunk_shape |-> props.chunk_shape],
     chunk_memory_layout |-> "C",
     fill_value |-> props.fill_value,
     extensions |-> <<>>,
     attributes |-> "attrs"]

\* the group metadata document create_group writes
GroupMeta == [extensions |-> <<>>, attributes |-> "attrs"]

\* create_group: [res, map] - the result and the store after the call
create_group(map, path) ==
    LET p == _check_path(path)
    IN  IF p.err # "none" THEN [res |-> Fail(p.err), map |-> map]
        ELSE [res |-> NodeOk("explicit_group", p.value),
              map |-> MemoryStore_set(map, _group_meta_key(p.value, meta_key_suffix),
                                      GroupMeta)]

\* create_array: [res, map] - the result and the store after the call
create_array(map, path, props) ==
    LET p == _check_path(path)
    IN  IF p.err # "none" THEN [res |-> Fail(p.err), map |-> map]
        ELSE IF _check_dtype(props.dtype).err # "none"
        THEN [res |-> Fail("Error"), map |-> map]
        ELSE IF _check_chunk_shape(props.chunk_shape, props.shape).err # "none"
        THEN [res |-> Fail("Error"), map |-> map]
        ELSE [res |-> NodeOk("array", p.value),
              map |-> MemoryStore_set(map, _array_meta_key(p.value, meta_key_suffix),
                                      ArrayMeta(props))]

\* this.store.get(key): the MemoryStore's answer, or the I/O error of a
\* store that fails on the key
store_get(map, key) ==
    IF key \in storeFault.keys THEN Throw("IOError") ELSE MemoryStore_get(map, key)

\* this.store.list_dir(prefix): "none", or the I/O error of a store whose
\* listing fails
store_list_dir_err == IF storeFault.list_dir THEN "IOError" ELSE "none"

get_array(map, path) ==
    LET p == _check_path(path)
    IN  IF p.err # "none" THEN Fail(p.err)
        ELSE LET got == store_get(map, _array_meta_key(p.value, meta_key_suffix))
             IN  IF got.err = "KeyError" THEN Fail("NodeNotFoundError")
                 ELSE IF got.err # "none" THEN Fail(got.err)
                 ELSE LET meta == got.value
                      IN  IF meta.chunk_grid.type # "regular"
                          THEN Fail("NotImplementedError")
                          ELSE IF _check_chunk_shape(meta.chunk_grid.chunk_shape,
                                                     meta.shape).err # "none"
                          THEN Fail("Error")
                          ELSE IF meta.chunk_memory_layout # "C"
                          THEN Fail("NotImplementedError")
                          ELSE IF \E i \in 1..Len(meta.extensions) :
                                      meta.extensions[i].must_understand
                          THEN Fail("TypeError")
                          ELSE NodeOk("array", p.value)

\* the variant whose catch clause throws on what is not a KeyError
get_explicit_group_rethrow(map, path) ==
    LET p == _check_path(path)
    IN  IF p.err # "none" THEN Fail(p.err)
        ELSE LET got == store_get(map, _group_meta_key(p.value, meta_key_suffix))
             IN  IF got.err = "KeyError" THEN Fail("NodeNotFoundError")
                 ELSE IF got.err # "none" THEN Fail(got.err)
                 ELSE NodeOk("explicit_group", p.value)

\* Hierarchy.get_explicit_group.  The catch clause throws only for a
\* KeyError: after any other error meta_doc is still undefined, and
\* _json_decode_object(undefined) parses the empty string (SyntaxError).
get_explicit_group(map, path) ==
    LET p == _check_path(path)
    IN  IF p.err # "none" THEN Fail(p.err)
        ELSE LET got == store_get(map, _group_meta_key(p.value, meta_key_suffix))
             IN  IF got.err = "KeyError" THEN Fail("NodeNotFoundError")
                 ELSE IF got.err # "none" THEN Fail("SyntaxError")
                 ELSE NodeOk("explicit_group", p.value)

\* the prefix under which the metadata keys of the nodes below path live
MetaPrefix(path) ==
    IF path = <<"/">> THEN S_meta_root \o <<"/">>
    ELSE S_meta_root \o path \o <<"/">>

\* the variant that looks at the file-like entries only
get_implicit_group_contents_only(map, path) ==
    LET p == _check_path(path)
    IN  IF p.err # "none" THEN Fail(p.err)
        ELSE LET result == MemoryStore_list_dir(map, MetaPrefix(p.value))
             IN  IF Len(result.contents) = 0
                 THEN Fail("NodeNotFoundError")
                 ELSE NodeOk("implicit_group", p.value)

get_implicit_group(map, path) ==
    LET p == _check_path(path)
    IN  IF p.err # "none" THEN Fail(p.err)
        ELSE IF store_list_dir_err # "none" THEN Fail(store_list_dir_err)
        ELSE LET result == MemoryStore_list_dir(map, MetaPrefix(p.value))
             IN  IF Len(result.contents) = 0 /\ Len(result.prefixes) = 0
                 THEN Fail("NodeNotFoundError")
                 ELSE NodeOk("implicit_group", p.value)

\* the variant that awaits get_implicit_group inside the try block, so that
\* the catch clause runs and turns NodeNotFoundError into KeyError
Hierarchy_get_awaited(map, path) ==
    LET a == get_array(map, path)
        g == get_explicit_group(map, path)
        i == get_implicit_group(map, path)
    IN  IF a.err # "NodeNotFoundError" THEN a
        ELSE IF g.err # "NodeNotFoundError" THEN g
        ELSE IF i.err = "NodeNotFoundError" THEN Fail("KeyError")
        ELSE i

\* Hierarchy.get.  The promise of get_implicit_group is returned without
\* await, so its rejection never enters the catch clause of the last try
\* block: it becomes the rejection of get itself.
Hierarchy_get(map, path) ==
    LET a == get_array(map, path)
        g == get_explicit_group(map, path)
        i == get_implicit_group(map, path)
    IN  IF a.err # "NodeNotFoundError" THEN a
        ELSE IF g.err # "NodeNotFoundError" THEN g
        ELSE i

Hierarchy_has(map, path) ==
    LET r == Hierarchy_get(map, path)
    IN  IF r.err = "none" THEN ValueOk("true")
        ELSE IF r.err = "NodeNotFoundError" THEN ValueOk("false")
        ELSE r

-----------------------------------------------------------------------------
(* The entry point document *)

S_core_uri == <<"h","t","t","p","s",":","/","/","p","u","r","l",".","o","r","g","/","z","a","r","r","/","s","p","e","c","/","p","r","o","t","o","c","o","l","/","c","o","r","e">>

S_core_3_0 == S_core_uri \o <<"/","3",".","0">>

\* create_hierarchy: the store after the entry point document is written
create_hierarchy(map) ==
    MemoryStore_set(map, S_zarr_json,
        [zarr_format |-> S_core_3_0,
         metadata_encoding |-> S_core_3_0,
         metadata_key_suffix |-> S_json,
         extensions |-> <<>>])

-----------------------------------------------------------------------------
(* Specification Spec: operations on a hierarchy made by create_hierarchy *)

RawPaths ==
    { <<"/">>, <<"/","a">>, <<"/","a","/","b">>, <<"/","a","/","b","/","c">>,
      <<"a">>, <<"/","a","/">> }

ArrayPropsSet ==
    { [shape |-> <<4>>, dtype |-> <<"<","i","4">>, chunk_shape |-> <<2>>,
       fill_value |-> 0],
      [shape |-> <<4>>, dtype |-> <<"<","i","4">>, chunk_shape |-> <<2, 2>>,
       fill_value |-> 0] }

\* the node metadata documents in the store (all entries but zarr.json)
NodeDocs(map) == { i \in 1..Len(map) : map[i].key # S_zarr_json }

Init ==
    /\ store = create_hierarchy(<<>>)
    /\ ret = NoCall
    /\ pathIn = <<>>
    /\ pathOut = NotCalled
    /\ ReadIdle
    /\ ExtIdle

CreateGroup(path) ==
    LET r == create_group(store, path)
    IN  /\ Cardinality(NodeDocs(r.map)) <= MaxNodes
        /\ store' = r.map
        /\ ret' = [op |-> "create_group", path |-> path, res |-> r.res]
        /\ UNCHANGED <<pathVars, readVars, extVars>>

CreateArray(path, props) ==
    LET r == create_array(store, path, props)
    IN  /\ Cardinality(NodeDocs(r.map)) <= MaxNodes
        /\ store' = r.map
        /\ ret' = [op |-> "create_array", path |-> path, res |-> r.res]
        /\ UNCHANGED <<pathVars, readVars, extVars>>

GetArray(path) ==
    /\ ret' = [op |-> "get_array", path |-> path, res |-> get_array(store, path)]
    /\ UNCHANGED <<store, pathVars, readVars, extVars>>

GetExplicitGroup(path) ==
    /\ ret' = [op |-> "get_explicit_group", path |-> path,
               res |-> get_explicit_group(store, path)]
    /\ UNCHANGED <<store, pathVars, readVars, extVars>>

GetImplicitGroup(path) ==
    /\ ret' = [op |-> "get_implicit_group", path |-> path,
               res |-> get_implicit_group(store, path)]
    /\ UNCHANGED <<store, pathVars, readVars, extVars>>

Get(path) ==
    /\ ret' = [op |-> "get", path |-> path, res |-> Hierarchy_get(store, path)]
    /\ UNCHANGED <<store, pathVars, readVars, extVars>>

Has(path) ==
    /\ ret' = [op |-> "has", path |-> path, res |-> Hierarchy_has(store, path)]
    /\ UNCHANGED <<store, pathVars, readVars, extVars>>

Next ==
    \E path \in RawPaths :
        \/ CreateGroup(path)
        \/ \E props \in ArrayPropsSet : CreateArray(path, props)
        \/ GetArray(path)
        \/ GetExplicitGroup(path)
        \/ GetImplicitGroup(path)
        \/ Get(path)
        \/ Has(path)

Spec == Init /\ [][Next]_vars

-----------------------------------------------------------------------------
(* C2 *)

\* the path a valid raw path stands for
Norm(path) == _check_path(path).value

HasArrayDoc(map, p) == MapHas(map, _array_meta_key(p, meta_key_suffix))

HasGroupDoc(map, p) == MapHas(map, _group_meta_key(p, meta_key_suffix))

\* some key of the store lies under meta/root{p}/
HasKeysBelow(map, p) ==
    \E i \in 1..Len(map) :
        /\ StartsWith(map[i].key, MetaPrefix(p))
        /\ Len(map[i].key) > Len(MetaPrefix(p))

\* what resolution in the order array, explicit group, implicit group yields
Resolved(map, p) ==
    IF HasArrayDoc(map, p) THEN NodeOk("array", p)
    ELSE IF HasGroupDoc(map, p) THEN NodeOk("explicit_group", p)
    ELSE IF HasKeysBelow(map, p) THEN NodeOk("implicit_group", p)
    ELSE Fail("NodeNotFoundError")

\* C2: get(path) returns the array if the array document exists, else the
\* explicit group if the group document exists, else an implicit group if a
\* key exists under meta/root{path}/, else fails with NodeNotFoundError.
C2_ResolutionOrder ==
    (ret.op = "get" /\ _check_path(ret.path).err = "none") =>
        ret.res = Resolved(store, Norm(ret.path))

\* get found nothing at a path that other nodes surround
C2_Witness_NotFound ==
    /\ ret.op = "get"
    /\ ret.res = Fail("NodeNotFoundError")
    /\ Cardinality(NodeDocs(store)) >= 2

\* get returned the array at a path that also has a group document and
\* descendants
C2_Witness ==
    /\ ret.op = "get"
    /\ ret.res.kind = "array"
    /\ HasGroupDoc(store, ret.res.path)
    /\ HasKeysBelow(store, ret.res.path)

-----------------------------------------------------------------------------
(* C3 *)

NodePaths == { Norm(path) : path \in { q \in RawPaths : _check_path(q).err = "none" } }

\* C3: after any sequence of create_array and create_group, no path has
\* both its array document and its group document in the store.
C3_OneDocumentPerPath ==
    \A p \in NodePaths : ~(HasArrayDoc(store, p) /\ HasGroupDoc(store, p))

-----------------------------------------------------------------------------
(* C4 *)

\* a node document exists strictly below p
HasDescendantNode(map, p) ==
    \E q \in NodePaths :
        /\ q # p
        /\ StartsWith(q, IF p = <<"/">> THEN p ELSE p \o <<"/">>)
        /\ (HasArrayDoc(map, q) \/ HasGroupDoc(map, q))

NoOwnDoc(map, p) == ~HasArrayDoc(map, p) /\ ~HasGroupDoc(map, p)

\* C4: at a path without a document of its own, with a node below it, get
\* returns an implicit group, has returns true and get_explicit_group fails
\* with NodeNotFoundError; without document and without keys below, has
\* returns false.
C4_ImplicitGroup ==
    _check_path(ret.path).err = "none" =>
        LET p == Norm(ret.path)
        IN  /\ (NoOwnDoc(store, p) /\ HasDescendantNode(store, p)) =>
                /\ ret.op = "get" => ret.res = NodeOk("implicit_group", p)
                /\ ret.op = "has" => ret.res = ValueOk("true")
                /\ ret.op = "get_explicit_group" =>
                       ret.res = Fail("NodeNotFoundError")
            /\ (NoOwnDoc(store, p) /\ ~HasKeysBelow(store, p)) =>
                (ret.op = "has" => ret.res = ValueOk("false"))

\* has answered true for a path that exists only through a node two levels
\* below it
C4_Witness ==
    /\ ret.op = "has"
    /\ ret.path = <<"/","a">>
    /\ ret.res = ValueOk("true")
    /\ NoOwnDoc(store, <<"/","a">>)
    /\ ~HasArrayDoc(store, <<"/","a","/","b">>)
    /\ ~HasGroupDoc(store, <<"/","a","/","b">>)
    /\ HasDescendantNode(store, <<"/","a">>)

-----------------------------------------------------------------------------
(* Opening a hierarchy *)

\* a Hierarchy object: the suffix it carries is held in the path field
HierarchyOk(suffix) == [err |-> "none", kind |-> "hierarchy", path |-> suffix]

\* segments.pop(): the last segment of zarr_format
ProtocolVersion(zarr_format) ==
    SplitChar(zarr_format, "/")[Len(SplitChar(zarr_format, "/"))]

\* segments.join('/') after the pop
ProtocolUri(zarr_format) ==
    JoinWith(DropLast(SplitChar(zarr_format, "/"), 1), "/")

\* protocol_version.split('.')[0]
ProtocolMajorVersion(zarr_format) ==
    SplitChar(ProtocolVersion(zarr_format), ".")[1]

\* the variant that never looks at the extensions
get_hierarchy_ignoring_extensions(map) ==
    LET got == MemoryStore_get(map, S_zarr_json)
    IN  IF got.err # "none" THEN Fail(got.err)
        ELSE LET meta == got.value
             IN  IF ProtocolUri(meta.zarr_format) # S_core_uri
                 THEN Fail("NotImplementedError")
                 ELSE IF ProtocolMajorVersion(meta.zarr_format) # <<"3">>
                 THEN Fail("NotImplementedError")
                 ELSE IF meta.metadata_encoding # S_core_3_0
                 THEN Fail("NotImplementedError")
                 ELSE HierarchyOk(meta.metadata_key_suffix)

get_hierarchy(map) ==
    LET got == MemoryStore_get(map, S_zarr_json)
    IN  IF got.err # "none" THEN Fail(got.err)
        ELSE LET meta == got.value
             IN  IF ProtocolUri(meta.zarr_format) # S_core_uri
                 THEN Fail("NotImplementedError")
                 ELSE IF ProtocolMajorVersion(meta.zarr_format) # <<"3">>
                 THEN Fail("NotImplementedError")
                 ELSE IF meta.metadata_encoding # S_core_3_0
                 THEN Fail("NotImplementedError")
                 ELSE IF \E i \in 1..Len(meta.extensions) :
                             meta.extensions[i].must_understand
                 THEN Fail("NotImplementedError")
                 ELSE HierarchyOk(meta.metadata_key_suffix)

-----------------------------------------------------------------------------
(* Specification SpecOpen: create_hierarchy and get_hierarchy on a store     *)
(* that is empty or holds an entry point document written by anyone          *)

\* most extensions an entry point document lists
MaxExtensions == 2

S_other_uri == <<"h","t","t","p","s",":","/","/","e","x","a","m","p","l","e",".","o","r","g","/","z","a","r","r">>

ZarrFormats ==
    { S_core_3_0,
      S_core_uri \o <<"/","3",".","1">>,
      S_core_uri \o <<"/","3">>,
      S_core_uri \o <<"/","4",".","0">>,
      S_core_uri \o <<"/","3","0",".","0">>,
      S_other_uri \o <<"/","3",".","0">> }

MetadataEncodings == { S_core_3_0, S_other_uri \o <<"/","3",".","0">> }

KeySuffixes == { S_json, <<>> }

ExtensionLists ==
    UNION { [1..n -> { [must_understand |-> b] : b \in BOOLEAN }] :
            n \in 0..MaxExtensions }

EntryDocs ==
    [zarr_format : ZarrFormats,
     metadata_encoding : MetadataEncodings,
     metadata_key_suffix : KeySuffixes,
     extensions : ExtensionLists]

InitOpen ==
    /\ \/ store = <<>>
       \/ \E doc \in EntryDocs : store = <<[key |-> S_zarr_json, value |-> doc]>>
    /\ ret = NoCall
    /\ pathIn = <<>>
    /\ pathOut = NotCalled
    /\ ReadIdle
    /\ ExtIdle

CreateHierarchy ==
    /\ store' = create_hierarchy(store)
    /\ ret' = [op |-> "create_hierarchy", path |-> <<>>,
               res |-> HierarchyOk(meta_key_suffix)]
    /\ UNCHANGED <<pathVars, readVars, extVars>>

GetHierarchy ==
    /\ ret' = [op |-> "get_hierarchy", path |-> <<>>, res |-> get_hierarchy(store)]
    /\ UNCHANGED <<store, pathVars, readVars, extVars>>

NextOpen == CreateHierarchy \/ GetHierarchy

SpecOpen == InitOpen /\ [][NextOpen]_vars

-----------------------------------------------------------------------------
(* C5 *)

\* the entry point document of a store that has one
EntryDoc == MapValue(store, S_zarr_json)

\* the major version zarr_format declares: what follows the last '/', up to
\* the first '.'
DeclaredMajor(doc) ==
    SplitChar(SplitChar(doc.zarr_format, "/")[Len(SplitChar(doc.zarr_format, "/"))],
              ".")[1]

DeclaresCoreProtocol(doc) ==
    StartsWith(doc.zarr_format, S_core_uri \o <<"/">>)
    /\ "/" \notin Range(SliceFrom(doc.zarr_format, Len(S_core_uri) + 1))

MustUnderstandSome(doc) ==
    \E i \in 1..Len(doc.extensions) : doc.extensions[i].must_understand

\* the three cases the claim names
C5_ClaimRejects(doc) ==
    \/ DeclaredMajor(doc) # <<"3">>
    \/ doc.metadata_encoding # S_core_3_0
    \/ MustUnderstandSome(doc)

\* C5 as stated: get_hierarchy fails with NotImplementedError when the major
\* version is not 3, the metadata encoding is unrecognised or an extension
\* has must_understand = true, and otherwise returns a hierarchy carrying
\* the stored metadata_key_suffix.
C5_Original ==
    (ret.op = "get_hierarchy" /\ MapHas(store, S_zarr_json)) =>
        IF C5_ClaimRejects(EntryDoc)
        THEN ret.res = Fail("NotImplementedError")
        ELSE ret.res = HierarchyOk(EntryDoc.metadata_key_suffix)

\* C5 amended: get_hierarchy fails with NotImplementedError when zarr_format
\* names a protocol other than the core protocol URI, or its major version
\* is not 3, or the metadata encoding is unrecognised, or an extension has
\* must_understand = true; otherwise it returns a hierarchy carrying the
\* stored metadata_key_suffix.
C5_OpenHierarchy ==
    (ret.op = "get_hierarchy" /\ MapHas(store, S_zarr_json)) =>
        IF ~DeclaresCoreProtocol(EntryDoc) \/ C5_ClaimRejects(EntryDoc)
        THEN ret.res = Fail("NotImplementedError")
        ELSE ret.res = HierarchyOk(EntryDoc.metadata_key_suffix)

\* get_hierarchy opened a store whose entry point lists only extensions that
\* need not be understood
C5_Witness ==
    /\ ret.op = "get_hierarchy"
    /\ MapHas(store, S_zarr_json)
    /\ ret.res = HierarchyOk(EntryDoc.metadata_key_suffix)
    /\ Len(EntryDoc.extensions) = MaxExtensions

-----------------------------------------------------------------------------
(* The selection indexer (BasicIndexer, get_strides, set_from_chunk)         *)
(*                                                                           *)
(* A selection is a sequence with one entry per dimension:                   *)
(*   [kind |-> "null"], [kind |-> "int", start |-> i] or                     *)
(*   [kind |-> "slice", start |-> a, stop |-> b, step |-> s]                 *)
(* (all entries carry the four fields); missing trailing entries are full.   *)

NullSel == [kind |-> "null", start |-> 0, stop |-> 0, step |-> 1]

IntSel(i) == [kind |-> "int", start |-> i, stop |-> 0, step |-> 1]

SliceSel(a, b, s) == [kind |-> "slice", start |-> a, stop |-> b, step |-> s]

RECURSIVE Prod(_)
\* shape.reduce((a, b) => a * b, 1)
Prod(shape) == IF shape = <<>> THEN 1 ELSE Head(shape) * Prod(Tail(shape))

\* the selection entry of dimension d (full when the selection is shorter)
SelEntry(selection, d) == IF d <= Len(selection) THEN selection[d] ELSE NullSel

\* a bound of a slice clamped into 0..len, negative values counting from the end
ClampBound(b, len) ==
    LET v == IF b < 0 THEN b + len ELSE b
    IN  IF v < 0 THEN 0 ELSE IF v > len THEN len ELSE v

\* one selection entry normalised against the length of its dimension
NormEntry(s, len) ==
    IF s.kind = "null" THEN SliceSel(0, len, 1)
    ELSE IF s.kind = "int"
    THEN IntSel(IF s.start < 0 THEN s.start + len ELSE s.start)
    ELSE SliceSel(ClampBound(s.start, len), ClampBound(s.stop, len), s.step)

\* an integer entry outside the dimension
OutOfBounds(s, len) ==
    s.kind = "int" /\ (NormEntry(s, len).start < 0 \/ NormEntry(s, len).start >= len)

\* the number of indices a normalised slice selects
NItems(s) ==
    IF s.stop > s.start THEN (s.stop - s.start + s.step - 1) \div s.step ELSE 0

\* the projection of a normalised entry s onto chunk ix of a dimension with
\* chunks of length c: the first chunk-local index cstart, the number n of
\* indices, their step, and the first output index ostart
DimChunkProjection(s, ix, c) ==
    LET ks == { k \in 0..(NItems(s) - 1) : (s.start + k * s.step) \div c = ix }
    IN  IF ks = {}
        THEN [ix |-> ix, cstart |-> 0, n |-> 0, step |-> s.step, ostart |-> 0,
              collapsed |-> FALSE]
        ELSE [ix |-> ix, cstart |-> s.start + Min(ks) * s.step - ix * c,
              n |-> Cardinality(ks), step |-> s.step, ostart |-> Min(ks),
              collapsed |-> FALSE]

\* the projections of one dimension, by increasing chunk index
DimProjections(sraw, len, c) ==
    LET s == NormEntry(sraw, len)
    IN  IF s.kind = "int"
        THEN << [ix |-> s.start \div c, cstart |-> s.start % c, n |-> 1,
                 step |-> 1, ostart |-> 0, collapsed |-> TRUE] >>
        ELSE IF NItems(s) = 0
        THEN LET at == IF s.start >= len THEN len - 1 ELSE s.start
             IN  << DimChunkProjection(s, at \div c, c) >>
        ELSE LET first == s.start \div c
                 last  == (s.start + (NItems(s) - 1) * s.step) \div c
             IN  [j \in 1..(last - first + 1) |->
                      DimChunkProjection(s, first + j - 1, c)]

RECURSIVE CartesianProduct(_)
\* the combinations of one element per sequence, last sequence fastest
CartesianProduct(seqs) ==
    IF seqs = <<>> THEN << <<>> >>
    ELSE LET rest == CartesianProduct(Tail(seqs))
             head == Head(seqs)
         IN  [t \in 1..(Len(head) * Len(rest)) |->
                 <<head[((t - 1) \div Len(rest)) + 1]>>
                     \o rest[((t - 1) % Len(rest)) + 1]]

\* new BasicIndexer({ selection, shape, chunk_shape }): the output shape and
\* the chunk projections, or IndexError
BasicIndexer(selection, shape, chunk_shape) ==
    IF \E d \in 1..Len(shape) : OutOfBounds(SelEntry(selection, d), shape[d])
    THEN [err |-> "IndexError", shape |-> <<>>, projections |-> <<>>]
    ELSE LET dims == [d \in 1..Len(shape) |->
                         DimProjections(SelEntry(selection, d), shape[d],
                                        chunk_shape[d])]
             kept == SelectSeq([d \in 1..Len(shape) |-> d],
                         LAMBDA d : SelEntry(selection, d).kind # "int")
             combos == CartesianProduct(dims)
         IN  [err |-> "none",
              shape |-> [k \in 1..Len(kept) |->
                            NItems(NormEntry(SelEntry(selection, kept[k]),
                                             shape[kept[k]]))],
              projections |-> [t \in 1..Len(combos) |->
                  [chunk_coords |-> [d \in 1..Len(shape) |-> combos[t][d].ix],
                   mapping |-> combos[t]]]]

\* get_strides(shape, "C"): stride[d] = product of shape[d+1..]
get_strides(shape) ==
    [d \in 1..Len(shape) |-> Prod(SubSeq(shape, d + 1, Len(shape)))]

\* the stride in the output of each dimension of the array: 0 for a
\* dimension an integer entry collapsed
OutStrides(mapping, out_shape) ==
    [d \in 1..Len(mapping) |->
        IF mapping[d].collapsed THEN 0
        ELSE get_strides(out_shape)[
                 Cardinality({ e \in 1..d : ~mapping[e].collapsed })]]

RECURSIVE CopyPairs(_, _, _, _)
\* the pairs <<offset in the chunk, offset in the output>> a mapping relates,
\* from dimension d on
CopyPairs(mapping, cstrides, ostrides, d) ==
    IF d > Len(mapping) THEN { <<0, 0>> }
    ELSE { << pr[1] + (mapping[d].cstart + k * mapping[d].step) * cstrides[d],
              pr[2] + (mapping[d].ostart + k) * ostrides[d] >> :
           k \in 0..(mapping[d].n - 1),
           pr \in CopyPairs(mapping, cstrides, ostrides, d + 1) }

\* the offsets of the output a mapping writes
TargetOffsets(mapping, chunk_shape, out_shape) ==
    { pr[2] : pr \in CopyPairs(mapping, get_strides(chunk_shape),
                               OutStrides(mapping, out_shape), 1) }

\* setter.set_from_chunk(out, chunk, mapping): the output after the copy
set_from_chunk(buf, out_shape, chunk, chunk_shape, mapping) ==
    LET pairs == CopyPairs(mapping, get_strides(chunk_shape),
                           OutStrides(mapping, out_shape), 1)
    IN  [j \in 1..Len(buf) |->
            IF \E pr \in pairs : pr[2] = j - 1
            THEN chunk[(CHOOSE pr \in pairs : pr[2] = j - 1)[1] + 1]
            ELSE buf[j]]

\* setter.set_scalar(out, ranges, value): the output after the fill
set_scalar(buf, out_shape, chunk_shape, mapping, value) ==
    [j \in 1..Len(buf) |->
        IF (j - 1) \in TargetOffsets(mapping, chunk_shape, out_shape)
        THEN value ELSE buf[j]]

-----------------------------------------------------------------------------
(* Chunks of an array: keys, codec, get_chunk *)

S_data_root == <<"d","a","t","a","/","r","o","o","t">>

DigitChars == <<"0","1","2","3","4","5","6","7","8","9">>

RECURSIVE Decimal(_)
\* String(n) for a natural number n
Decimal(n) ==
    IF n < 10 THEN <<DigitChars[n + 1]>>
    ELSE Decimal(n \div 10) \o <<DigitChars[(n % 10) + 1]>>

\* ZarrArray._chunk_key
_chunk_key(a, chunk_coords) ==
    S_data_root \o a.path \o <<"/", "c">>
        \o JoinWith([d \in 1..Len(chunk_coords) |-> Decimal(chunk_coords[d])],
                    a.chunk_separator)

Reverse(s) == [i \in 1..Len(s) |-> s[Len(s) + 1 - i]]

\* a compressor: encode and decode are inverse byte transformations, and
\* decode throws on bytes it cannot read (fault)
Codec_encode(bytes) == Reverse(bytes)

Codec_decode(bytes, fault) ==
    IF fault = "DecodeError" THEN Throw("DecodeError") ELSE Ok(Reverse(bytes))

\* DTYPES: the typed array constructor of a dtype without its byte order
\* mark, "undefined" where the table has no entry
DTYPES(lookup) ==
    CASE lookup = <<"u","1">> -> "Uint8Array"
      [] lookup = <<"i","1">> -> "Int8Array"
      [] lookup = <<"u","2">> -> "Uint16Array"
      [] lookup = <<"i","2">> -> "Int16Array"
      [] lookup = <<"u","4">> -> "Uint32Array"
      [] lookup = <<"i","4">> -> "Int32Array"
      [] lookup = <<"f","4">> -> "Float32Array"
      [] lookup = <<"f","8">> -> "Float64Array"
      [] OTHER -> "undefined"

\* get TypedArray()
TypedArray(a) ==
    LET lookup == IF a.dtype[1] = "<" \/ a.dtype[1] = ">"
                  THEN SubSeq(a.dtype, 2, Min({3, Len(a.dtype)}))
                  ELSE a.dtype
    IN  DTYPES(lookup)

\* BYTES_PER_ELEMENT of a typed array constructor
BYTES_PER_ELEMENT(ctor) ==
    CASE ctor \in {"Uint8Array", "Int8Array"} -> 1
      [] ctor \in {"Uint16Array", "Int16Array"} -> 2
      [] ctor \in {"Uint32Array", "Int32Array", "Float32Array"} -> 4
      [] ctor \in {"Float64Array", "BigInt64Array"} -> 8

\* this._should_byte_swap, set by the constructor
_should_byte_swap(a) ==
    \/ a.dtype[1] = ">" /\ LITTLE_ENDIAN_OS
    \/ a.dtype[1] = "<" /\ ~LITTLE_ENDIAN_OS

\* byte_swap_inplace(src) on the bytes of src, whose elements are b bytes
\* wide: the bytes of every element are put in the opposite order
byte_swap_inplace(src, b) ==
    [k \in 1..Len(src) |->
        LET i == ((k - 1) \div b) * b
            j == (k - 1) % b
        IN  src[i + (b - 1 - j) + 1]]

\* ZarrArray._decode_chunk: the bytes of the typed array it returns (the
\* elements themselves for a one-byte dtype), or the error thrown
_decode_chunk(a, buffer, fault) ==
    LET bytes == IF a.compressor # "none" THEN Codec_decode(buffer, fault)
                 ELSE Ok(buffer)
    IN  IF bytes.err # "none" THEN bytes
        ELSE IF TypedArray(a) = "undefined" THEN Throw("TypeError")
        ELSE IF Len(bytes.value) % BYTES_PER_ELEMENT(TypedArray(a)) # 0
        THEN Throw("RangeError")
        ELSE IF _should_byte_swap(a)
        THEN Ok(byte_swap_inplace(bytes.value, BYTES_PER_ELEMENT(TypedArray(a))))
        ELSE bytes

\* the bytes of the caller's typed array data (a ctor) after
\* ZarrArray._encode_chunk(data): the swap is made in the caller's buffer
_encode_chunk_data(a, ctor, data) ==
    IF _should_byte_swap(a) THEN byte_swap_inplace(data, BYTES_PER_ELEMENT(ctor))
    ELSE data

\* ZarrArray._encode_chunk(data): the bytes it returns
_encode_chunk(a, ctor, data) ==
    LET bytes == _encode_chunk_data(a, ctor, data)
    IN  IF a.compressor # "none" THEN Codec_encode(bytes) ELSE bytes

\* store.get of the Store contract: any store may fail with an I/O error
\* (fault); the MemoryStore answers with the value or KeyError
Store_get(map, key, fault) ==
    IF fault = "IOError" THEN Throw("IOError") ELSE MemoryStore_get(map, key)

\* typeof fill_value === 'number'
IsNumber(fill_value) == ~fill_value.null

\* new TypedArray(size), then data.fill(fill_value) for a numeric fill_value
FillBuffer(a) ==
    [o \in 1..Prod(a.chunk_shape) |->
        IF IsNumber(a.fill_value) THEN a.fill_value.value ELSE 0]

\* the variant whose catch clause does not look at the kind of error
get_chunk_catch_all(a, map, chunk_coords, fault) ==
    LET buffer == Store_get(map, _chunk_key(a, chunk_coords), fault)
        data == IF buffer.err = "none" THEN _decode_chunk(a, buffer.value, fault)
                ELSE buffer
    IN  IF data.err = "none" THEN data ELSE Ok(FillBuffer(a))

\* the variant that leaves the synthesized buffer zero-initialised
get_chunk_no_fill(a, map, chunk_coords, fault) ==
    LET buffer == Store_get(map, _chunk_key(a, chunk_coords), fault)
        data == IF buffer.err = "none" THEN _decode_chunk(a, buffer.value, fault)
                ELSE buffer
    IN  IF data.err = "none" THEN data
        ELSE IF data.err # "KeyError" THEN data
        ELSE Ok([o \in 1..Prod(a.chunk_shape) |-> 0])

\* ZarrArray.get_chunk: the data of the chunk, or the error thrown
get_chunk(a, map, chunk_coords, fault) ==
    LET buffer == Store_get(map, _chunk_key(a, chunk_coords), fault)
        data == IF buffer.err = "none" THEN _decode_chunk(a, buffer.value, fault)
                ELSE buffer
    IN  IF data.err = "none" THEN data
        ELSE IF data.err # "KeyError" THEN data
        ELSE IF TypedArray(a) = "undefined" THEN Throw("TypeError")
        ELSE Ok(FillBuffer(a))

-----------------------------------------------------------------------------
(* get: the chunk tasks and the queue *)

\* if (arr.fill_value)
Truthy(fill_value) == ~fill_value.null /\ fill_value.value # 0

\* the variant of the task whose catch clause swallows every error
ChunkTask_swallow(a, buf, out_shape, mapping, got) ==
    IF got.err = "none"
    THEN [status |-> "done", err |-> "none",
          out |-> set_from_chunk(buf, out_shape, got.value, a.chunk_shape, mapping)]
    ELSE [status |-> "done", err |-> "none",
          out |-> IF Truthy(a.fill_value)
                  THEN set_scalar(buf, out_shape, a.chunk_shape, mapping,
                                  a.fill_value.value)
                  ELSE buf]

\* the variant of the task that copies the chunk to the start of the output
ChunkTask_unmapped(a, buf, out_shape, mapping, got) ==
    IF got.err = "none"
    THEN [status |-> "done", err |-> "none",
          out |-> [j \in 1..Len(buf) |->
                      IF j <= Len(got.value) THEN got.value[j] ELSE buf[j]]]
    ELSE IF got.err # "KeyError"
    THEN [status |-> "failed", err |-> got.err, out |-> buf]
    ELSE [status |-> "done", err |-> "none", out |-> buf]

\* the task get adds to the queue for one projection, run on the outcome
\* got of get_chunk: the then handler scatters the chunk, the catch handler
\* rethrows what is not a KeyError and fills on a KeyError
ChunkTask(a, buf, out_shape, mapping, got) ==
    IF got.err = "none"
    THEN [status |-> "done", err |-> "none",
          out |-> set_from_chunk(buf, out_shape, got.value, a.chunk_shape, mapping)]
    ELSE IF got.err # "KeyError"
    THEN [status |-> "failed", err |-> got.err, out |-> buf]
    ELSE [status |-> "done", err |-> "none",
          out |-> IF Truthy(a.fill_value)
                  THEN set_scalar(buf, out_shape, a.chunk_shape, mapping,
                                  a.fill_value.value)
                  ELSE buf]

\* what the body of get_chunk's try block met: "none", "KeyError" (the
\* store has no such key) or the error of the store or of the decoder
FetchOutcome(a, map, chunk_coords, fault) ==
    LET buffer == Store_get(map, _chunk_key(a, chunk_coords), fault)
    IN  IF buffer.err = "none" THEN _decode_chunk(a, buffer.value, fault).err
        ELSE buffer.err

\* the indexer of the read in progress
Indexer == BasicIndexer(sel, arr.shape, arr.chunk_shape)

Settled(t) == t.status \in {"done", "failed"}

NumRunning == Cardinality({ i \in 1..Len(tasks) : tasks[i].status = "running" })

-----------------------------------------------------------------------------
(* Specification SpecRead: one get(selection) on an array, some of whose     *)
(* chunks are stored; the store may fail a fetch and the codec a decode      *)

\* longest dimension of a one-dimensional array
MaxLen == 3

\* most chunks in the grid of an array
MaxChunks == 3

\* largest step of a slice
MaxStep == 2

\* tasks the queue runs at the same time
Concurrency == 2

ReadShapes == { <<MaxLen>>, <<2, 2>> }

CeilDiv(a, b) == (a + b - 1) \div b

\* the number of chunks along each dimension
GridShape(shape, chunk_shape) ==
    [d \in 1..Len(shape) |-> CeilDiv(shape[d], chunk_shape[d])]

ChunkShapesOf(shape) ==
    { cs \in [1..Len(shape) -> 1..MaxLen] :
        /\ \A d \in 1..Len(shape) : cs[d] <= shape[d]
        /\ Prod(GridShape(shape, cs)) <= MaxChunks }

NullFill == [null |-> TRUE, value |-> 0]

NumFill(v) == [null |-> FALSE, value |-> v]

\* fill value and compressor of the arrays read
Flavours ==
    { [fill_value |-> NullFill, compressor |-> "none"],
      [fill_value |-> NumFill(0), compressor |-> "gzip"],
      [fill_value |-> NumFill(7), compressor |-> "none"] }

ArrayConfigs ==
    { [path |-> <<"/", "a">>, shape |-> shape, dtype |-> <<"u","1">>,
       chunk_shape |-> cs, chunk_separator |-> "/", compressor |-> f.compressor,
       fill_value |-> f.fill_value] :
      shape \in ReadShapes, cs \in UNION { ChunkShapesOf(s) : s \in ReadShapes },
      f \in Flavours }

\* the configurations whose chunk shape fits the shape
ValidArrayConfigs ==
    { a \in ArrayConfigs : a.chunk_shape \in ChunkShapesOf(a.shape) }

\* the coordinates of the chunks of the grid, last dimension fastest
AllChunkCoords(a) ==
    CartesianProduct([d \in 1..Len(a.shape) |->
        [i \in 1..GridShape(a.shape, a.chunk_shape)[d] |-> i - 1]])

\* the element a writer stored at the logical coordinates: 1 + its
\* row-major position in the array
LogicalValue(a, coords) ==
    LET st == get_strides(a.shape)
        RECURSIVE Lin(_)
        Lin(d) == IF d > Len(coords) THEN 0 ELSE coords[d] * st[d] + Lin(d + 1)
    IN  1 + Lin(1)

\* the chunk-local coordinates of offset o of a chunk
Unravel(o, shape) ==
    [d \in 1..Len(shape) |-> (o \div get_strides(shape)[d]) % shape[d]]

\* the elements of a written chunk (0 in the padding beyond the array)
ChunkData(a, chunk_coords) ==
    [o \in 1..Prod(a.chunk_shape) |->
        LET local == Unravel(o - 1, a.chunk_shape)
            coords == [d \in 1..Len(a.shape) |->
                          chunk_coords[d] * a.chunk_shape[d] + local[d]]
        IN  IF \A d \in 1..Len(a.shape) : coords[d] < a.shape[d]
            THEN LogicalValue(a, coords) ELSE 0]

\* the store in which exactly the chunks of a at the positions in present
\* (indices into AllChunkCoords) were written
StoreWith(a, present) ==
    LET all == AllChunkCoords(a)
        idx == SelectSeq([i \in 1..Len(all) |-> i], LAMBDA i : i \in present)
    IN  [k \in 1..Len(idx) |->
            [key |-> _chunk_key(a, all[idx[k]]),
             value |-> _encode_chunk(a, TypedArray(a),
                                     ChunkData(a, all[idx[k]]))]]

\* the selections tried on an array of the given shape
SelectionsFor(shape) ==
    IF Len(shape) = 1
    THEN { <<>>, <<NullSel>>, <<SliceSel(0 - 1, shape[1] + 1, 1)>> }
         \cup { <<IntSel(i)>> : i \in (0 - 1)..shape[1] }
         \cup { <<SliceSel(a, b, s)>> :
                  a \in 0..shape[1], b \in 0..shape[1], s \in 1..MaxStep }
    ELSE { <<IntSel(1)>> }
         \cup { <<s1, s2>> :
                  s1 \in { NullSel, IntSel(0), IntSel(1), SliceSel(0, 1, 1),
                           SliceSel(1, 2, 1) },
                  s2 \in { NullSel, IntSel(0), IntSel(1), SliceSel(0, 1, 1),
                           SliceSel(1, 2, 1) } }

\* the errors a fetch can meet besides the missing key
Faults == { "none", "IOError", "DecodeError" }

InitRead ==
    /\ arr \in ValidArrayConfigs
    /\ \E present \in SUBSET (1..Len(AllChunkCoords(arr))) :
           store = StoreWith(arr, present)
    /\ sel = <<>>
    /\ pc = "idle"
    /\ tasks = <<>>
    /\ out = <<>>
    /\ readRes = NotCalled
    /\ ret = NoCall
    /\ pathIn = <<>>
    /\ pathOut = NotCalled
    /\ ExtIdle

\* get, up to "await queue.onIdle()": the indexer is built, the output
\* buffer allocated and one task per projection added to the queue
GetStart(selection) ==
    /\ pc = "idle"
    /\ sel' = selection
    /\ LET indexer == BasicIndexer(selection, arr.shape, arr.chunk_shape)
       IN  IF indexer.err # "none"
           THEN /\ pc' = "failed"
                /\ readRes' = Throw(indexer.err)
                /\ UNCHANGED <<tasks, out>>
           ELSE /\ pc' = "waiting"
                /\ out' = [j \in 1..Prod(indexer.shape) |-> 0]
                /\ tasks' = [t \in 1..Len(indexer.projections) |->
                       [chunk_coords |-> indexer.projections[t].chunk_coords,
                        mapping |-> indexer.projections[t].mapping,
                        status |-> "queued", err |-> "none",
                        fetched |-> "pending", got |-> NotCalled,
                        overtook |-> FALSE]]
                /\ UNCHANGED readRes
    /\ UNCHANGED <<arr, store, ret, pathVars, extVars>>

\* the queue starts the oldest waiting task when a slot is free
TaskStart(i) ==
    /\ tasks[i].status = "queued"
    /\ \A j \in 1..(i - 1) : tasks[j].status # "queued"
    /\ NumRunning < Concurrency
    /\ tasks' = [tasks EXCEPT ![i].status = "running"]
    /\ UNCHANGED <<arr, sel, pc, out, readRes, store, ret, pathVars, extVars>>

\* get_chunk of a running task settles and the task's handlers run
TaskSettle(i, fault) ==
    /\ tasks[i].status = "running"
    /\ LET got == get_chunk(arr, store, tasks[i].chunk_coords, fault)
           r == ChunkTask(arr, out, Indexer.shape, tasks[i].mapping, got)
       IN  /\ tasks' = [tasks EXCEPT ![i].status = r.status,
                                     ![i].err = r.err,
                                     ![i].got = got,
                                     ![i].fetched =
                                         FetchOutcome(arr, store,
                                             tasks[i].chunk_coords, fault),
                                     ![i].overtook =
                                         \E j \in 1..(i - 1) :
                                             ~Settled(tasks[j])]
           /\ out' = r.out
    /\ UNCHANGED <<arr, sel, pc, readRes, store, ret, pathVars, extVars>>

\* the variant of the return that does not wait for the queue
GetReturn_no_wait ==
    /\ pc = "waiting"
    /\ pc' = "returned"
    /\ readRes' = Ok(IF Len(Indexer.shape) = 0 THEN <<out[1]>> ELSE out)
    /\ UNCHANGED <<arr, sel, tasks, out, store, ret, pathVars, extVars>>

\* queue.onIdle() resolves once every task has completed: get returns the
\* output, or the scalar at offset 0 when the output shape is empty
GetReturn ==
    /\ pc = "waiting"
    /\ \A i \in 1..Len(tasks) : tasks[i].status = "done"
    /\ pc' = "returned"
    /\ readRes' = Ok(IF Len(Indexer.shape) = 0 THEN <<out[1]>> ELSE out)
    /\ UNCHANGED <<arr, sel, tasks, out, store, ret, pathVars, extVars>>

\* queue.onIdle() rejects with the error of a task that failed: get throws it
GetFail(i) ==
    /\ pc = "waiting"
    /\ tasks[i].status = "failed"
    /\ pc' = "failed"
    /\ readRes' = Throw(tasks[i].err)
    /\ UNCHANGED <<arr, sel, tasks, out, store, ret, pathVars, extVars>>

NextRead ==
    \/ \E selection \in SelectionsFor(arr.shape) : GetStart(selection)
    \/ \E i \in 1..Len(tasks) : TaskStart(i)
    \/ \E i \in 1..Len(tasks), fault \in Faults : TaskSettle(i, fault)
    \/ GetReturn
    \/ \E i \in 1..Len(tasks) : GetFail(i)

SpecRead == InitRead /\ [][NextRead]_vars

-----------------------------------------------------------------------------
(* C6 *)

\* the errors of a fetch that are not the missing key
IsFailure(e) == e \notin {"none", "KeyError", "pending"}

-----------------------------------------------------------------------------
(* C7 *)

-----------------------------------------------------------------------------
(* C8 *)

\* C8: when a chunk task fails with an error that is not the missing key,
\* get does not return the output: it fails, with the error of such a task.
C8_FailureSurfaces ==
    /\ pc = "returned" =>
          \A i \in 1..Len(tasks) : ~IsFailure(tasks[i].fetched)
    /\ (pc = "failed" /\ Indexer.err = "none") =>
          \E i \in 1..Len(tasks) :
              IsFailure(tasks[i].fetched) /\ readRes = Throw(tasks[i].fetched)

\* get failed with the error of one task although a sibling had already
\* scattered its chunk into the output
C8_Witness ==
    /\ pc = "failed"
    /\ readRes.err = "DecodeError"
    /\ \E i \in 1..Len(tasks) : tasks[i].status = "done"
    /\ \E j \in 1..Len(out) : out[j] # 0

-----------------------------------------------------------------------------
(* C9 *)

\* C9: get adds exactly one task per chunk projection of the indexer, and
\* when it returns every task has settled and the value returned is the
\* output as the tasks left it.
C9_AllTasksSettle ==
    LET indexer == Indexer
    IN  (pc # "idle" /\ indexer.err = "none") =>
        /\ Len(tasks) = Len(indexer.projections)
        /\ \A i \in 1..Len(tasks) :
              /\ tasks[i].chunk_coords = indexer.projections[i].chunk_coords
              /\ tasks[i].mapping = indexer.projections[i].mapping
        /\ pc = "returned" =>
              /\ \A i \in 1..Len(tasks) : tasks[i].status = "done"
              /\ readRes.value = out

\* get returned after three tasks, of which at most Concurrency ran at a time
C9_Witness ==
    /\ pc = "returned"
    /\ Len(tasks) = 3
    /\ \A i \in 1..Len(tasks) : tasks[i].status = "done"

-----------------------------------------------------------------------------
(* C10 *)

\* the positions among the kept dimensions of dimension d
KeptBefore(selection, d) ==
    Cardinality({ e \in 1..d : SelEntry(selection, e).kind # "int" })

\* the logical coordinates of the array element that belongs at offset j
\* of the output
LogicalCoords(a, selection, j) ==
    LET k == Unravel(j, BasicIndexer(selection, a.shape, a.chunk_shape).shape)
    IN  [d \in 1..Len(a.shape) |->
            LET s == NormEntry(SelEntry(selection, d), a.shape[d])
            IN  IF s.kind = "int" THEN s.start
                ELSE s.start + k[KeptBefore(selection, d)] * s.step]

\* the element of the array at the logical coordinates, given the chunks
\* the store holds
ElementAt(a, map, coords) ==
    IF MapHas(map, _chunk_key(a,
           [d \in 1..Len(coords) |-> coords[d] \div a.chunk_shape[d]]))
    THEN LogicalValue(a, coords)
    ELSE IF a.fill_value.null THEN 0 ELSE a.fill_value.value

\* the output the selection denotes
ExpectedOutput(a, map, selection) ==
    [j \in 1..Prod(BasicIndexer(selection, a.shape, a.chunk_shape).shape) |->
        ElementAt(a, map, LogicalCoords(a, selection, j - 1))]

TaskTargets(i) == TargetOffsets(tasks[i].mapping, arr.chunk_shape, Indexer.shape)

\* C10: the tasks of one get write to pairwise disjoint regions of the
\* output, and the output returned is the one the store content and the
\* selection determine, whatever the order in which the tasks completed.
C10_DisjointScatter ==
    LET indexer == Indexer
        targets == [i \in 1..Len(tasks) |->
                       TargetOffsets(tasks[i].mapping, arr.chunk_shape,
                                     indexer.shape)]
    IN  (pc # "idle" /\ indexer.err = "none") =>
            /\ \A i, j \in 1..Len(tasks) :
                   i # j => targets[i] \cap targets[j] = {}
            /\ pc = "returned" =>
                   readRes.value = ExpectedOutput(arr, store, sel)

\* get returned after its second task completed before its first, one of
\* the two chunks being stored and the other missing
C10_Witness ==
    /\ pc = "returned"
    /\ Len(tasks) >= 2
    /\ tasks[2].overtook
    /\ tasks[1].fetched = "none"
    /\ tasks[2].fetched = "KeyError"
    /\ TaskTargets(1) # {}
    /\ TaskTargets(2) # {}

-----------------------------------------------------------------------------
(* Specification SpecCodec: a caller's chunk buffer is encoded by            *)
(* _encode_chunk and the bytes are decoded again by _decode_chunk            *)

\* most elements in a chunk buffer handed to _encode_chunk
MaxElems == 2

\* the typed array a caller fills for an array of the dtype: the one of
\* DTYPES, 64-bit integers in a BigInt64Array, half floats as raw 16-bit
\* words
CallerArray(a) ==
    IF TypedArray(a) # "undefined" THEN TypedArray(a)
    ELSE IF a.dtype[Len(a.dtype)] = "8" THEN "BigInt64Array"
    ELSE "Uint16Array"

\* the bytes of one element of b bytes: consecutive byte values from first
ElementBytes(b, first) == [j \in 1..b |-> first + j - 1]

RECURSIVE Flatten(_)
Flatten(seqs) == IF seqs = <<>> THEN <<>> ELSE Head(seqs) \o Flatten(Tail(seqs))

\* the contents of the buffers handed to _encode_chunk, as bytes in memory
ChunkBuffers(ctor) ==
    { Flatten([e \in 1..Len(firsts) |->
                  ElementBytes(BYTES_PER_ELEMENT(ctor), firsts[e])]) :
        firsts \in UNION { [1..n -> {1, 16}] : n \in 1..MaxElems } }

\* the arrays whose chunks are encoded: every dtype array creation accepts,
\* with and without a compressor
CodecArrays ==
    { [path |-> <<"/", "a">>, shape |-> <<MaxElems>>, dtype |-> dtype,
       chunk_shape |-> <<MaxElems>>, chunk_separator |-> "/",
       compressor |-> compressor, fill_value |-> NullFill] :
      dtype \in DTYPE_STRS, compressor \in {"none", "gzip"} }

InitCodec ==
    /\ arr \in CodecArrays
    /\ LITTLE_ENDIAN_OS \in BOOLEAN
    /\ \E given \in ChunkBuffers(CallerArray(arr)) :
           codec = [step |-> "given", ctor |-> CallerArray(arr),
                    given |-> given, data |-> given,
                    encoded |-> NotCalled, decoded |-> NotCalled]
    /\ sel = <<>>
    /\ pc = "idle"
    /\ tasks = <<>>
    /\ out = <<>>
    /\ readRes = NotCalled
    /\ store = <<>>
    /\ ret = NoCall
    /\ pathIn = <<>>
    /\ pathOut = NotCalled
    /\ storeFault = NoFault
    /\ FsIdle

\* bytes = await arr._encode_chunk(data)
EncodeChunk ==
    /\ codec.step = "given"
    /\ codec' = [codec EXCEPT
           !.step = "encoded",
           !.data = _encode_chunk_data(arr, codec.ctor, codec.data),
           !.encoded = Ok(_encode_chunk(arr, codec.ctor, codec.data))]
    /\ UNCHANGED <<LITTLE_ENDIAN_OS, storeFault, fsa, readVars, hierVars, pathVars>>

\* data = await arr._decode_chunk(bytes)
DecodeChunk ==
    /\ codec.step = "encoded"
    /\ codec' = [codec EXCEPT
           !.step = "decoded",
           !.decoded = _decode_chunk(arr, codec.encoded.value, "none")]
    /\ UNCHANGED <<LITTLE_ENDIAN_OS, storeFault, fsa, readVars, hierVars, pathVars>>

NextCodec ==
    \/ EncodeChunk
    \/ DecodeChunk

SpecCodec == InitCodec /\ [][NextCodec]_vars

-----------------------------------------------------------------------------
(* C11 *)

\* C11: for every dtype array creation accepts, either byte order and with
\* or without a compressor, decoding the bytes _encode_chunk produced gives
\* a buffer with the elements the caller's buffer had before encoding.
C11_RoundTrip ==
    codec.step = "decoded" => codec.decoded = Ok(codec.given)

\* C19: after _encode_chunk the caller's buffer holds the elements it held
\* before the call, for every dtype and either byte order, also when the
\* array's byte order is not the host's and the bytes are swapped.
C19_BufferUnchanged ==
    codec.step \in { "encoded", "decoded" } => codec.data = codec.given

-----------------------------------------------------------------------------
(* Specification SpecDtype: arrays of every data type are created, opened    *)
(* and read                                                                  *)

\* new ZarrArray({ path, shape, dtype, chunk_shape, ... }) of create_array
ArrayOfProps(path, props) ==
    [path |-> path, shape |-> props.shape, dtype |-> props.dtype,
     chunk_shape |-> props.chunk_shape, chunk_separator |-> "/",
     compressor |-> "none", fill_value |-> props.fill_value]

\* new ZarrArray({ path, shape, dtype, chunk_shape, ... }) of get_array
ArrayOfMeta(path, meta) ==
    [path |-> path, shape |-> meta.shape, dtype |-> meta.data_type,
     chunk_shape |-> meta.chunk_grid.chunk_shape,
     chunk_separator |-> meta.chunk_grid.separator,
     compressor |-> "none", fill_value |-> meta.fill_value]

\* the data types asked for: the ones create_array lists, and the ones the
\* source names as unsupported
DtypesTried ==
    DTYPE_STRS \cup { <<"<","u","8">>, <<">","u","8">>, <<"|","b","1">> }

\* the properties handed to create_array, and of arrays written by others
DtypeProps ==
    { [shape |-> <<2>>, dtype |-> dtype, chunk_shape |-> <<2>>,
       fill_value |-> fill_value] :
      dtype \in DtypesTried, fill_value \in {NullFill, NumFill(7)} }

\* the paths of the arrays created and opened
DtypePaths == { <<"/","a">> }

\* the array metadata document at the path, as get_array reads it
ArrayDocAt(map, path) ==
    MemoryStore_get(map, _array_meta_key(path, meta_key_suffix))

\* a new hierarchy, or one in which another writer left an array document
InitDtype ==
    /\ \/ store = create_hierarchy(<<>>)
       \/ \E props \in DtypeProps :
              store = MemoryStore_set(create_hierarchy(<<>>),
                          _array_meta_key(<<"/","a">>, meta_key_suffix),
                          ArrayMeta(props))
    /\ ret = NoCall
    /\ pathIn = <<>>
    /\ pathOut = NotCalled
    /\ ReadIdle
    /\ ExtIdle

\* array = await h.create_array(path, props)
CreateArrayObject(path, props) ==
    LET r == create_array(store, path, props)
    IN  /\ store' = r.map
        /\ ret' = [op |-> "create_array", path |-> path, res |-> r.res,
                   dtype |-> props.dtype]
        /\ arr' = IF r.res.err = "none" THEN ArrayOfProps(r.res.path, props)
                  ELSE [path |-> <<>>]
        /\ readRes' = NotCalled
        /\ UNCHANGED <<sel, pc, tasks, out, pathVars, extVars>>

\* array = await h.get_array(path)
GetArrayObject(path) ==
    LET res == get_array(store, path)
        doc == ArrayDocAt(store, path)
    IN  /\ ret' = [op |-> "get_array", path |-> path, res |-> res,
                   dtype |-> IF doc.err = "none" THEN doc.value.data_type
                             ELSE <<>>]
        /\ arr' = IF res.err = "none" THEN ArrayOfMeta(res.path, doc.value)
                  ELSE [path |-> <<>>]
        /\ readRes' = NotCalled
        /\ UNCHANGED <<store, sel, pc, tasks, out, pathVars, extVars>>

\* await array.get_chunk([0]) on the array last created or opened
GetChunkOfArray ==
    /\ arr.path # <<>>
    /\ readRes = NotCalled
    /\ readRes' = get_chunk(arr, store, <<0>>, "none")
    /\ UNCHANGED <<arr, store, ret, sel, pc, tasks, out, pathVars, extVars>>

NextDtype ==
    \/ \E path \in DtypePaths, props \in DtypeProps :
           CreateArrayObject(path, props)
    \/ \E path \in DtypePaths : GetArrayObject(path)
    \/ GetChunkOfArray

SpecDtype == InitDtype /\ [][NextDtype]_vars

-----------------------------------------------------------------------------
(* C12 *)

\* C12: creating or opening an array whose data type has no typed buffer
\* constructor fails with NotImplementedError; every array object returned
\* has a constructor, and get_chunk never fails on account of the dtype.
C12_DtypeCheckedAtOpen ==
    /\ ret.op \in {"create_array", "get_array"} =>
          /\ (ret.dtype # <<>> /\ TypedArray([dtype |-> ret.dtype]) = "undefined") =>
                 ret.res.err = "NotImplementedError"
          /\ ret.res.err = "none" => TypedArray(arr) # "undefined"
    /\ readRes.err # "TypeError"

-----------------------------------------------------------------------------
(* Specification SpecFault: the hierarchy operations on a store that fails   *)
(* with an I/O error on some of its operations                               *)

\* the paths the operations are called with
FaultPaths == { <<"/","a">>, <<"/","a","/","b">> }

\* the properties of the arrays created
FaultProps ==
    { [shape |-> <<2>>, dtype |-> <<"u","1">>, chunk_shape |-> <<2>>,
       fill_value |-> NullFill] }

\* the key of chunk 0 of the array at the path
ChunkZeroKey(path) ==
    _chunk_key([path |-> path, chunk_separator |-> "/"], <<0>>)

\* the keys on which the store may fail: the documents and a chunk of /a
FaultKeys ==
    { _array_meta_key(<<"/","a">>, meta_key_suffix),
      _group_meta_key(<<"/","a">>, meta_key_suffix),
      ChunkZeroKey(<<"/","a">>) }

InitFault ==
    /\ store = create_hierarchy(<<>>)
    /\ storeFault \in [keys : SUBSET FaultKeys, list_dir : BOOLEAN]
    /\ ret = NoCall
    /\ pathIn = <<>>
    /\ pathOut = NotCalled
    /\ ReadIdle
    /\ CodecIdle
    /\ FsIdle

\* array = await h.get_array(path); await array.get_chunk([0])
GetChunkOfPath(path) ==
    LET doc == ArrayDocAt(store, path)
        key == ChunkZeroKey(path)
    IN  /\ doc.err = "none"
        /\ _array_meta_key(path, meta_key_suffix) \notin storeFault.keys
        /\ ret' = [op |-> "get_chunk", path |-> path,
                   res |-> get_chunk(ArrayOfMeta(path, doc.value), store, <<0>>,
                               IF key \in storeFault.keys THEN "IOError"
                               ELSE "none")]
        /\ UNCHANGED <<store, pathVars, readVars, extVars>>

NextFault ==
    \E path \in FaultPaths :
        \/ CreateGroup(path)
        \/ \E props \in FaultProps : CreateArray(path, props)
        \/ GetArray(path)
        \/ GetExplicitGroup(path)
        \/ GetImplicitGroup(path)
        \/ Get(path)
        \/ Has(path)
        \/ GetChunkOfPath(path)

SpecFault == InitFault /\ [][NextFault]_vars

-----------------------------------------------------------------------------
(* C13 *)

\* C13: when the store operation a hierarchy operation issues fails with an
\* I/O error, the operation fails with that error: get_array on its array
\* document, get_explicit_group on its group document, get_implicit_group
\* on the listing, get and has on the first of these they reach, get_chunk
\* on the chunk.
C13_StoreFailurePropagates ==
    LET p == _check_path(ret.path)
        ak == _array_meta_key(p.value, meta_key_suffix)
        gk == _group_meta_key(p.value, meta_key_suffix)
        fails(key) == key \in storeFault.keys
    IN  (ret.op # "none" /\ p.err = "none") =>
            /\ (ret.op = "get_array" /\ fails(ak)) => ret.res.err = "IOError"
            /\ (ret.op = "get_explicit_group" /\ fails(gk)) =>
                   ret.res.err = "IOError"
            /\ (ret.op = "get_implicit_group" /\ storeFault.list_dir) =>
                   ret.res.err = "IOError"
            /\ ret.op \in {"get", "has"} =>
                   /\ fails(ak) => ret.res.err = "IOError"
                   /\ (~fails(ak) /\ ~MapHas(store, ak) /\ fails(gk)) =>
                          ret.res.err = "IOError"
                   /\ (~fails(ak) /\ ~MapHas(store, ak) /\ ~fails(gk)
                          /\ ~MapHas(store, gk) /\ storeFault.list_dir) =>
                          ret.res.err = "IOError"
            /\ (ret.op = "get_chunk" /\ fails(ChunkZeroKey(p.value))) =>
                   ret.res.err = "IOError"

-----------------------------------------------------------------------------
(* Listing the nodes of a hierarchy: get_children *)

\* this.array_suffix, this.group_suffix
array_suffix == S_array \o meta_key_suffix

group_suffix == S_group \o meta_key_suffix

RECURSIVE ExplicitChildren(_, _)
\* the loop of get_children over result.contents; children is a Map, kept
\* as its entries [key, value] in insertion order
ExplicitChildren(contents, children) ==
    IF contents = <<>> THEN children
    ELSE LET n == Head(contents)
         IN  ExplicitChildren(Tail(contents),
                 IF EndsWith(n, array_suffix)
                 THEN MemoryStore_set(children, DropLast(n, Len(array_suffix)),
                                      "array")
                 ELSE IF EndsWith(n, group_suffix)
                 THEN MemoryStore_set(children, DropLast(n, Len(group_suffix)),
                                      "explicit_group")
                 ELSE children)

RECURSIVE ImplicitChildren(_, _)
\* the loop of get_children over result.prefixes:
\* children.set(name, children.get(name) || 'implicit_group')
ImplicitChildren(prefixes, children) ==
    IF prefixes = <<>> THEN children
    ELSE LET name == Head(prefixes)
         IN  ImplicitChildren(Tail(prefixes),
                 IF MapHas(children, name) THEN children
                 ELSE MemoryStore_set(children, name, "implicit_group"))

\* Hierarchy.get_children: the Map of child names to kinds
get_children(map, path) ==
    LET p == _check_path(path)
    IN  IF p.err # "none" THEN Fail(p.err)
        ELSE IF store_list_dir_err # "none" THEN Fail(store_list_dir_err)
        ELSE LET result == MemoryStore_list_dir(map, MetaPrefix(p.value))
             IN  ValueOk(ImplicitChildren(result.prefixes,
                             ExplicitChildren(result.contents, <<>>)))

-----------------------------------------------------------------------------
(* get_nodes *)

S_meta == <<"m","e","t","a","/">>

S_root == <<"r","o","o","t">>

RECURSIVE Backfill(_, _)
\* while (segments.length > 1): every ancestor not yet in the Map becomes an
\* implicit group
Backfill(segments, nodes) ==
    IF Len(segments) > 1
    THEN LET parent == JoinWith(segments, "/")
         IN  Backfill(DropLast(segments, 1),
                 IF MapHas(nodes, parent) THEN nodes
                 ELSE MemoryStore_set(nodes, parent, "implicit_group"))
    ELSE nodes

\* the body of either branch for a key under root/: the node is entered,
\* then its ancestors and the root
NodeEntered(nodes, path, kind) ==
    LET entered == MemoryStore_set(nodes, path, kind)
        filled == Backfill(DropLast(SplitChar(path, "/"), 1), entered)
    IN  IF MapHas(filled, <<"/">>) THEN filled
        ELSE MemoryStore_set(filled, <<"/">>, "implicit_group")

RECURSIVE NodesScan(_, _)
\* the loop of get_nodes over the keys listed under meta/
NodesScan(keys, nodes) ==
    IF keys = <<>> THEN nodes
    ELSE LET key == Head(keys)
             asArray ==
                 IF EndsWith(key, array_suffix)
                 THEN NodeEntered(nodes,
                          SubSeq(key, Len(S_root) + 1, Len(key) - Len(array_suffix)),
                          "array")
                 ELSE nodes
             asGroup ==
                 IF EndsWith(key, group_suffix)
                 THEN NodeEntered(asArray,
                          SubSeq(key, Len(S_root) + 1, Len(key) - Len(group_suffix)),
                          "explicit_group")
                 ELSE asArray
         IN  NodesScan(Tail(keys),
                 IF key = S_root \o array_suffix
                 THEN MemoryStore_set(nodes, <<"/">>, "array")
                 ELSE IF key = S_root \o S_group
                 THEN MemoryStore_set(nodes, <<"/">>, "explicit_group")
                 ELSE IF StartsWith(key, S_root \o <<"/">>) THEN asGroup
                 ELSE nodes)

\* Hierarchy.get_nodes: the Map of paths to kinds
get_nodes(map) ==
    LET result == MemoryStore_list_prefix(map, S_meta)
    IN  IF result.err # "none" THEN Fail(result.err)
        ELSE ValueOk(NodesScan(result.value, <<>>))

-----------------------------------------------------------------------------
(* Specification SpecNodes: arrays and groups are created, also under node   *)
(* names that repeat the words of the metadata prefix, and the nodes are     *)
(* listed and resolved                                                       *)

\* the paths at which nodes are created and which are listed
ListedPaths ==
    { <<"/">>, <<"/","a">>, <<"/","a","/","b">>,
      <<"/","m","e","t","a","/","r","o","o","t","/","a","/","x">> }

\* the properties of the arrays created
NodesProps ==
    { [shape |-> <<2>>, dtype |-> <<"u","1">>, chunk_shape |-> <<2>>,
       fill_value |-> NullFill] }

GetChildren(path) ==
    /\ ret' = [op |-> "get_children", path |-> path,
               res |-> get_children(store, path)]
    /\ UNCHANGED <<store, pathVars, readVars, extVars>>

GetNodes ==
    /\ ret' = [op |-> "get_nodes", path |-> <<>>, res |-> get_nodes(store)]
    /\ UNCHANGED <<store, pathVars, readVars, extVars>>

NextNodes ==
    \/ \E path \in ListedPaths :
           \/ CreateGroup(path)
           \/ \E props \in NodesProps : CreateArray(path, props)
           \/ GetChildren(path)
           \/ Get(path)
           \/ Has(path)
           \/ GetExplicitGroup(path)
    \/ GetNodes

SpecNodes == Init /\ [][NextNodes]_vars

-----------------------------------------------------------------------------
(* C14 *)

\* the path of the child called name of the node at p
ChildPath(p, name) ==
    IF p = <<"/">> THEN p \o name ELSE p \o <<"/">> \o name

\* q lies strictly below p
Below(q, p) ==
    q # p /\ StartsWith(q, IF p = <<"/">> THEN p ELSE p \o <<"/">>)

\* the paths that have a metadata document in the store
DocPaths(map) ==
    { q \in ListedPaths : HasArrayDoc(map, q) \/ HasGroupDoc(map, q) }

\* the names of the direct children of p: the first segment, below p, of
\* every path that has a document
ChildNames(map, p) ==
    { SplitChar(SliceFrom(q, Len(ChildPath(p, <<>>))), "/")[1] :
        q \in { d \in DocPaths(map) : Below(d, p) } }

\* the kinds a child may be listed with
ChildKinds(map, c) ==
    IF HasArrayDoc(map, c) \/ HasGroupDoc(map, c)
    THEN { k \in {"array", "explicit_group"} :
             \/ k = "array" /\ HasArrayDoc(map, c)
             \/ k = "explicit_group" /\ HasGroupDoc(map, c) }
    ELSE {"implicit_group"}

\* C14: get_children(path) lists exactly the direct children of path, each
\* as array or explicit_group when it has that document, and as
\* implicit_group only when it has no document but nodes below it.
C14_DirectChildren ==
    (ret.op = "get_children" /\ _check_path(ret.path).err = "none") =>
        LET p == Norm(ret.path)
            children == ret.res.kind
        IN  /\ ret.res.err = "none"
            /\ { children[i].key : i \in 1..Len(children) } = ChildNames(store, p)
            /\ \A i \in 1..Len(children) :
                   children[i].value \in
                       ChildKinds(store, ChildPath(p, children[i].key))

-----------------------------------------------------------------------------
(* C18 *)

\* the paths that are resolved: the paths of the nodes and their ancestors
ResolvedPaths ==
    UNION { { JoinWith(SubSeq(SplitChar(p, "/"), 1, n), "/") :
                n \in 2..Len(SplitChar(p, "/")) } : p \in ListedPaths }
        \cup { <<"/">> }

\* the store with its keys listed in another order
Reordered(map, f) == [i \in 1..Len(map) |-> map[f[i]]]

Entries(nodes) == { nodes[i] : i \in 1..Len(nodes) }

\* C18: with at most one document per path, get_nodes has an entry for
\* exactly the paths at which get succeeds, of the kind of the node that get
\* returns, the root included, whatever the order in which the store lists
\* its keys
C18_NodesAgreeWithGet ==
    (/\ ret.op = "get_nodes"
     /\ \A p \in ResolvedPaths : ~(HasArrayDoc(store, p) /\ HasGroupDoc(store, p))) =>
        /\ ret.res.err = "none"
        /\ \A e \in Entries(ret.res.kind) :
               Hierarchy_get(store, e.key) = NodeOk(e.value, e.key)
        /\ \A p \in ResolvedPaths :
               Hierarchy_get(store, p).err = "none" => MapHas(ret.res.kind, p)
        /\ \A f \in Permutations(1..Len(store)) :
               Entries(get_nodes(Reordered(store, f)).kind) = Entries(ret.res.kind)

-----------------------------------------------------------------------------
(* Specification SpecStore: keys are set in and deleted from a MemoryStore   *)
(* and the store is listed                                                   *)

\* most keys the store holds
MaxKeys == 3

\* MemoryStore.delete
MemoryStore_delete(map, key) == SelectSeq(map, LAMBDA e : e.key # key)

\* the keys set and deleted
StoreKeys ==
    { <<"x">>, <<"a","/","x">>, <<"a","/","b","/","y">>,
      <<"b","/","a","/","x">>, <<"a","/","a","/","x">> }

\* the prefixes listed
StorePrefixes == { <<>>, <<"a","/">>, <<"b","/">> }

InitStore ==
    /\ store = <<>>
    /\ ret = NoCall
    /\ pathIn = <<>>
    /\ pathOut = NotCalled
    /\ ReadIdle
    /\ ExtIdle

\* store.set(key, value)
StoreSet(key) ==
    /\ Len(MemoryStore_set(store, key, "v")) <= MaxKeys
    /\ store' = MemoryStore_set(store, key, "v")
    /\ ret' = [op |-> "set", path |-> key, res |-> ValueOk("done")]
    /\ UNCHANGED <<pathVars, readVars, extVars>>

\* store.delete(key)
StoreDelete(key) ==
    /\ store' = MemoryStore_delete(store, key)
    /\ ret' = [op |-> "delete", path |-> key, res |-> ValueOk("done")]
    /\ UNCHANGED <<pathVars, readVars, extVars>>

\* store.list_dir(prefix)
StoreListDir(prefix) ==
    /\ ret' = [op |-> "list_dir", path |-> prefix,
               res |-> IF prefix # <<>> /\ prefix[Len(prefix)] # "/"
                       THEN Throw("Error")
                       ELSE Ok(MemoryStore_list_dir(store, prefix))]
    /\ UNCHANGED <<store, pathVars, readVars, extVars>>

\* store.list_prefix(prefix)
StoreListPrefix(prefix) ==
    /\ ret' = [op |-> "list_prefix", path |-> prefix,
               res |-> MemoryStore_list_prefix(store, prefix)]
    /\ UNCHANGED <<store, pathVars, readVars, extVars>>

NextStore ==
    \/ \E key \in StoreKeys : StoreSet(key) \/ StoreDelete(key)
    \/ \E prefix \in StorePrefixes :
           StoreListDir(prefix) \/ StoreListPrefix(prefix)

SpecStore == InitStore /\ [][NextStore]_vars

-----------------------------------------------------------------------------
(* C15 *)

\* the keys of the store that start with the prefix, without the prefix
Remainders(map, prefix) ==
    { SliceFrom(map[i].key, Len(prefix)) :
        i \in { j \in 1..Len(map) : StartsWith(map[j].key, prefix) } }

\* C15: list_dir(prefix) looks only at the keys that start with the prefix:
\* contents is their remainders without '/', prefixes the distinct first
\* segments of their remainders with '/'; list_prefix(prefix) returns their
\* remainders.
C15_ListingByPrefix ==
    /\ (ret.op = "list_dir" /\ ret.res.err = "none") =>
          LET contents == ret.res.value.contents
              prefixes == ret.res.value.prefixes
              rem == Remainders(store, ret.path)
          IN  /\ Range(contents) = { r \in rem : "/" \notin Range(r) }
              /\ Len(contents) = Cardinality(Range(contents))
              /\ Range(prefixes) =
                     { SplitChar(r, "/")[1] : r \in { q \in rem : "/" \in Range(q) } }
              /\ Len(prefixes) = Cardinality(Range(prefixes))
    /\ (ret.op = "list_prefix" /\ ret.res.err = "none") =>
          /\ Range(ret.res.value) = Remainders(store, ret.path)
          /\ Len(ret.res.value) = Cardinality(Range(ret.res.value))

-----------------------------------------------------------------------------
(* open: the v3 convention is tried before the v2 convention *)

S_zarray == <<".","z","a","r","r","a","y">>

S_zgroup == <<".","z","g","r","o","u","p">>

\* location.resolve(name).path: the key of the document name of the node
Location_resolve(path, name) ==
    IF path = <<"/">> THEN path \o name ELSE path \o <<"/">> \o name

\* location.store.get(key) of a Readable: the bytes, undefined for an
\* absent key, or the I/O error of a store that fails on the key
Readable_get(map, key) ==
    IF key \in storeFault.keys THEN Throw("IOError")
    ELSE IF MapHas(map, key) THEN Ok(MapValue(map, key))
    ELSE Ok([undefined |-> TRUE])

\* !meta
Missing(meta) == "undefined" \in DOMAIN meta

\* json_decode_object(meta): the document, or the SyntaxError of JSON.parse
json_decode_object(meta) ==
    IF meta.json THEN Ok(meta) ELSE Throw("SyntaxError")

\* the outcome of an attempt: what it returned or threw, and the keys it
\* asked the store for
Attempt(res, gets) == [res |-> res, gets |-> gets]

\* _open_v3
_open_v3(map, path) ==
    LET key == Location_resolve(path, S_zarr_json)
        meta == Readable_get(map, key)
    IN  IF meta.err # "none" THEN Attempt(Fail(meta.err), <<key>>)
        ELSE IF Missing(meta.value)
        THEN Attempt(Fail("NodeNotFoundError"), <<key>>)
        ELSE IF json_decode_object(meta.value).err # "none"
        THEN Attempt(Fail(json_decode_object(meta.value).err), <<key>>)
        ELSE IF meta.value.node_type = "array"
        THEN Attempt(NodeOk("v3_array", path), <<key>>)
        ELSE Attempt(NodeOk("v3_group", path), <<key>>)

\* open_v3
open_v3(map, path, kind) ==
    LET node == _open_v3(map, path)
    IN  IF node.res.err # "none" THEN node
        ELSE IF kind = "auto" THEN node
        ELSE IF kind = "array" /\ node.res.kind = "v3_array" THEN node
        ELSE IF kind = "group" /\ node.res.kind = "v3_group" THEN node
        ELSE Attempt(Fail("Error"), node.gets)

\* open_array_v2
open_array_v2(map, path) ==
    LET key == Location_resolve(path, S_zarray)
        meta == Readable_get(map, key)
    IN  IF meta.err # "none" THEN Attempt(Fail(meta.err), <<key>>)
        ELSE IF Missing(meta.value)
        THEN Attempt(Fail("NodeNotFoundError"), <<key>>)
        ELSE IF json_decode_object(meta.value).err # "none"
        THEN Attempt(Fail(json_decode_object(meta.value).err), <<key>>)
        ELSE Attempt(NodeOk("v2_array", path), <<key>>)

\* open_group_v2
open_group_v2(map, path) ==
    LET key == Location_resolve(path, S_zgroup)
        meta == Readable_get(map, key)
    IN  IF meta.err # "none" THEN Attempt(Fail(meta.err), <<key>>)
        ELSE IF Missing(meta.value)
        THEN Attempt(Fail("NodeNotFoundError"), <<key>>)
        ELSE IF json_decode_object(meta.value).err # "none"
        THEN Attempt(Fail(json_decode_object(meta.value).err), <<key>>)
        ELSE Attempt(NodeOk("v2_group", path), <<key>>)

\* open_v2
open_v2(map, path, kind) ==
    IF kind = "array" THEN open_array_v2(map, path)
    ELSE IF kind = "group" THEN open_group_v2(map, path)
    ELSE LET a == open_array_v2(map, path)
             g == open_group_v2(map, path)
         IN  IF a.res.err = "NodeNotFoundError"
             THEN Attempt(g.res, a.gets \o g.gets)
             ELSE a

\* the variant that falls back to the older convention on every error
open_on_any_error(map, path, kind) ==
    LET new == open_v3(map, path, kind)
        old == open_v2(map, path, kind)
    IN  IF new.res.err # "none"
        THEN Attempt(old.res, new.gets \o old.gets)
        ELSE new

\* open
open(map, path, kind) ==
    LET new == open_v3(map, path, kind)
        old == open_v2(map, path, kind)
    IN  IF new.res.err = "NodeNotFoundError"
        THEN Attempt(old.res, new.gets \o old.gets)
        ELSE new

-----------------------------------------------------------------------------
(* Opening the node of a location whose store holds any of the three
   documents, readable or not *)

OpenPaths == { <<"/">>, <<"/","a">> }

OpenKinds == { "auto", "array", "group" }

\* what the bytes of zarr.json can be
V3Docs == { [json |-> TRUE, node_type |-> "array"],
            [json |-> TRUE, node_type |-> "group"],
            [json |-> FALSE] }

\* what the bytes of .zarray or .zgroup can be
V2Docs == { [json |-> TRUE], [json |-> FALSE] }

\* the store that holds the given documents of the node at path
DocsAt(path, v3, array, group) ==
    LET z == IF v3 = {} THEN <<>>
             ELSE <<[key |-> Location_resolve(path, S_zarr_json),
                     value |-> CHOOSE d \in v3 : TRUE]>>
        a == IF array = {} THEN <<>>
             ELSE <<[key |-> Location_resolve(path, S_zarray),
                     value |-> CHOOSE d \in array : TRUE]>>
        g == IF group = {} THEN <<>>
             ELSE <<[key |-> Location_resolve(path, S_zgroup),
                     value |-> CHOOSE d \in group : TRUE]>>
    IN  z \o a \o g

AtMostOne(S) == { {} } \cup { {d} : d \in S }

InitAuto ==
    /\ pathIn \in OpenPaths
    /\ \E v3 \in AtMostOne(V3Docs), array \in AtMostOne(V2Docs),
          group \in AtMostOne(V2Docs) :
           store = DocsAt(pathIn, v3, array, group)
    /\ \E failing \in SUBSET { S_zarr_json, S_zarray, S_zgroup } :
           storeFault = [keys |-> { Location_resolve(pathIn, n) : n \in failing },
                         list_dir |-> FALSE]
    /\ ret = [op |-> "none", kind |-> "none", path |-> <<>>,
              res |-> Fail("NotCalled"), gets |-> <<>>]
    /\ pathOut = NotCalled
    /\ ReadIdle
    /\ CodecIdle
    /\ FsIdle

\* await open(location, { kind })
Open(kind) ==
    LET r == open(store, pathIn, kind)
    IN  /\ ret.op = "none"
        /\ ret' = [op |-> "open", kind |-> kind, path |-> pathIn,
                   res |-> r.res, gets |-> r.gets]
        /\ UNCHANGED <<store, pathVars, readVars, extVars>>

\* await open.v3(location, { kind })
OpenV3(kind) ==
    LET r == open_v3(store, pathIn, kind)
    IN  /\ ret.op = "none"
        /\ ret' = [op |-> "open.v3", kind |-> kind, path |-> pathIn,
                   res |-> r.res, gets |-> r.gets]
        /\ UNCHANGED <<store, pathVars, readVars, extVars>>

\* await open.v2(location, { kind })
OpenV2(kind) ==
    LET r == open_v2(store, pathIn, kind)
    IN  /\ ret.op = "none"
        /\ ret' = [op |-> "open.v2", kind |-> kind, path |-> pathIn,
                   res |-> r.res, gets |-> r.gets]
        /\ UNCHANGED <<store, pathVars, readVars, extVars>>

NextAuto ==
    \/ \E kind \in OpenKinds : Open(kind)
    \/ \E kind \in OpenKinds : OpenV3(kind)
    \/ \E kind \in OpenKinds : OpenV2(kind)

SpecAuto == InitAuto /\ [][NextAuto]_vars

\* what the store gives for a document of the opened location
Fetched(name) == Readable_get(store, Location_resolve(ret.path, name))

\* the document is in the store, can be read and parses
Usable(name) ==
    /\ Fetched(name).err = "none"
    /\ ~Missing(Fetched(name).value)
    /\ json_decode_object(Fetched(name).value).err = "none"

\* the store can be asked for the document and has none
Absent(name) ==
    /\ Fetched(name).err = "none"
    /\ Missing(Fetched(name).value)

\* the error that reading or parsing the document raises, "none" if none
ErrorOf(name) ==
    IF Fetched(name).err # "none" THEN Fetched(name).err
    ELSE IF Missing(Fetched(name).value) THEN "none"
    ELSE json_decode_object(Fetched(name).value).err

\* C16: open with kind 'auto' returns the v3 node when zarr.json is there,
\* else the v2 array when .zarray is there, else the v2 group when .zgroup
\* is there; it fails with NodeNotFoundError exactly when none of the three
\* documents is there; an error other than NodeNotFoundError of an earlier
\* attempt is the error of open, and no later document is asked for
C16_AutoOpenOrder ==
    (ret.op = "open" /\ ret.kind = "auto") =>
        LET z == S_zarr_json
            a == S_zarray
            g == S_zgroup
            key(n) == Location_resolve(ret.path, n)
        IN  /\ Usable(z) =>
                /\ ret.res \in { NodeOk("v3_array", ret.path),
                                  NodeOk("v3_group", ret.path) }
                /\ ret.res.kind = "v3_" \o Fetched(z).value.node_type
                /\ ret.gets = <<key(z)>>
            /\ (Absent(z) /\ Usable(a)) =>
                /\ ret.res = NodeOk("v2_array", ret.path)
                /\ ret.gets = <<key(z), key(a)>>
            /\ (Absent(z) /\ Absent(a) /\ Usable(g)) =>
                ret.res = NodeOk("v2_group", ret.path)
            /\ (ret.res.err = "NodeNotFoundError") <=>
                   (Absent(z) /\ Absent(a) /\ Absent(g))
            /\ ErrorOf(z) # "none" =>
                /\ ret.res = Fail(ErrorOf(z))
                /\ ret.gets = <<key(z)>>
            /\ (Absent(z) /\ ErrorOf(a) # "none") =>
                /\ ret.res = Fail(ErrorOf(a))
                /\ ret.gets = <<key(z), key(a)>>
            /\ (Absent(z) /\ Absent(a) /\ ErrorOf(g) # "none") =>
                ret.res = Fail(ErrorOf(g))

\* open gave up on zarr.json with an I/O error although the location holds
\* a v2 array it could have fallen back to
C16_Witness ==
    /\ ret.op = "open"
    /\ ret.kind = "auto"
    /\ ret.res = Fail("IOError")
    /\ ret.gets = <<Location_resolve(ret.path, S_zarr_json)>>
    /\ Usable(S_zarray)

-----------------------------------------------------------------------------
(* FileSystemAccessStore: init, the directory picker and the click listener *)

\* how many directory pickers init can be waiting for at once
MaxPending == 2

\* the directory handles a picker can return
Handles == { "h1", "h2" }

\* the fields init reads and writes on its receiver: the store, or the
\* document when init runs as the document's click listener
Receiver(isInitialized, directoryHandle) ==
    [isInitialized |-> isInitialized, directoryHandle |-> directoryHandle]

\* new FileSystemAccessStore()
FileSystemAccessStore(supported) ==
    [step |-> "constructed",
     supported |-> supported,
     store |-> Receiver(FALSE, "undefined"),
     document |-> Receiver(FALSE, "undefined"),
     listener |-> FALSE,
     pending |-> <<>>,
     last |-> [op |-> "new", this |-> "store", outcome |-> "none"],
     got |-> "none"]

\* document.addEventListener("click", this.init, { once: true }): init is
\* a method of the store's class, so the document has no init of its own and
\* a call whose receiver is the document adds no listener
addEventListener(f, this) ==
    IF this = "store" THEN [f EXCEPT !.listener = TRUE] ELSE f

\* init up to the await of the picker, or to its end when no picker is shown
FileSystemAccessStore_init(f, this, active) ==
    IF f[this].isInitialized
    THEN [f EXCEPT !.last = [op |-> "init", this |-> this, outcome |-> "initialized"]]
    ELSE IF ~f.supported
    THEN [f EXCEPT !.last = [op |-> "init", this |-> this, outcome |-> "unsupported"]]
    ELSE IF active
    THEN [f EXCEPT !.pending = Append(@, this),
                   !.last = [op |-> "init", this |-> this, outcome |-> "picker"]]
    ELSE [addEventListener(f, this) EXCEPT
              !.last = [op |-> "init", this |-> this, outcome |-> "inactive"]]

\* init from the point where the picker settles
FileSystemAccessStore_init_settled(f, i, outcome) ==
    LET this == f.pending[i]
        g == [f EXCEPT !.pending = SubSeq(@, 1, i - 1) \o SubSeq(@, i + 1, Len(@)),
                       !.last = [op |-> "settled", this |-> this, outcome |-> outcome]]
    IN  IF outcome \in Handles
        THEN [g EXCEPT ![this] = Receiver(TRUE, outcome)]
        ELSE IF outcome = "DOMException" THEN g
        ELSE addEventListener(g, this)

\* get, up to its first throw
FileSystemAccessStore_get(f) ==
    IF ~f.store.isInitialized \/ f.store.directoryHandle = "undefined"
    THEN "NotInitialized"
    ELSE "NotImplemented"

InitFs ==
    /\ \E supported \in BOOLEAN : fsa = FileSystemAccessStore(supported)
    /\ store = <<>>
    /\ ret = NoCall
    /\ pathIn = <<>>
    /\ pathOut = NotCalled
    /\ ReadIdle
    /\ CodecIdle
    /\ storeFault = NoFault

FsFrame == UNCHANGED <<pathVars, hierVars, readVars, codecVars, storeFault>>

\* store.init(), called by the program
FsInit(active) ==
    /\ Len(fsa.pending) < MaxPending
    /\ fsa' = FileSystemAccessStore_init(fsa, "store", active)
    /\ FsFrame

\* a click on the document: the one-shot listener is removed and called
\* with the document as its receiver
FsClick(active) ==
    /\ fsa.listener
    /\ Len(fsa.pending) < MaxPending
    /\ fsa' = FileSystemAccessStore_init([fsa EXCEPT !.listener = FALSE],
                                         "document", active)
    /\ FsFrame

\* window.showDirectoryPicker settles
FsPickerSettles(i, outcome) ==
    /\ i \in 1..Len(fsa.pending)
    /\ fsa' = FileSystemAccessStore_init_settled(fsa, i, outcome)
    /\ FsFrame

\* store.get(key)
FsGet ==
    /\ fsa' = [fsa EXCEPT !.got = FileSystemAccessStore_get(fsa),
                          !.last = [op |-> "get", this |-> "store",
                                    outcome |-> FileSystemAccessStore_get(fsa)]]
    /\ FsFrame

NextFs ==
    \/ \E active \in BOOLEAN : FsInit(active)
    \/ \E active \in BOOLEAN : FsClick(active)
    \/ \E i \in 1..MaxPending, outcome \in Handles \cup { "DOMException", "Error" } :
           FsPickerSettles(i, outcome)
    \/ FsGet

SpecFs == InitFs /\ [][NextFs]_vars

\* C17: isInitialized implies a directory handle; an init call on an
\* initialized store changes nothing; an init of the store that fails
\* without a user abort leaves init registered as the click listener, and
\* the retry that a click starts initializes this store when its picker
\* returns a handle; after a user abort or without the API no listener is
\* added and the store stays uninitialized; get on an uninitialized store
\* fails with the not-initialized error
C17_InitProtocol ==
    [][ LET did == fsa'.last
            same(field) == fsa'[field] = fsa[field]
        IN  /\ fsa'.store.isInitialized => fsa'.store.directoryHandle \in Handles
            /\ (fsa'.store.isInitialized /\ ~fsa.store.isInitialized) =>
                   (did.op = "settled" /\ did.outcome \in Handles)
            /\ (did.op = "init" /\ did.this = "store" /\ fsa.store.isInitialized) =>
                   (same("store") /\ same("listener") /\ same("pending"))
            /\ (did.this = "store" /\ did.outcome \in { "inactive", "Error" }) =>
                   fsa'.listener
            /\ (did.op = "settled" /\ did.this = "document"
                    /\ did.outcome \in Handles) =>
                   fsa'.store.isInitialized
            /\ (did.outcome \in { "DOMException", "unsupported" }) =>
                   (same("store") /\ same("listener"))
            /\ (did.op = "get" /\ ~fsa.store.isInitialized) =>
                   fsa'.got = "NotInitialized" ]_vars

=============================================================================
